---- MODULE Spec2Model ----
(***************************************************************************)
(* Fetch orchestration, TTL cache and gold-reserve store of fcli.          *)
(*                                                                         *)
(*   QuoteService.fetch_single / fetch_all   services/quote_service.py     *)
(*   ForexService.get_rate                   services/forex_service.py     *)
(*   FileCache / HybridCache                 core/cache.py                 *)
(*   is_trading_hours / get_cache_ttl        utils/time_util.py            *)
(*   GoldReserveStore.save_batch             core/stores/gold.py           *)
(*                                                                         *)
(* Time is the wall clock in whole seconds counted from Monday 00:00:00    *)
(* local time.  An optional value (Python None or an object) is a sequence *)
(* of length 0 or 1.  What a provider answers to one call is an input of   *)
(* the calling action: "ok" (a value), "none" (no data) or "raise".        *)
(***************************************************************************)
EXTENDS Integers, Sequences, FiniteSets, TLC

VARIABLES
    now,               \* wall clock, seconds since Monday 00:00:00
    ticks,             \* number of clock advances taken
    calls,             \* number of service calls completed
    fileCache,         \* FileCache._cache : key -> [data, expire_at]
    quote_priority,    \* config.source.quote_priority
    forex_priority,    \* config.source.forex_priority
    fallback_enabled,  \* config.source.fallback_enabled
    last,              \* record of the call that completed last
    table,             \* rows of the gold_reserves table
    pending,           \* per writer, the stamped batch not yet handed to the store
    db_pool,           \* Database._pool is not None
    db_enabled,        \* Database._enabled
    lastSave,          \* record of the save_batch call that completed last
    lastQuery,         \* record of the store query that completed last
    today,             \* datetime.now().date() as <<year, month, day>>
    days,              \* how many times the calendar date advanced
    schedules,         \* central_bank_schedules: country code -> release_day
    local_data,        \* GoldService._local_data["reserves"] (gold_stats.json)
    gold_priority,     \* config.source.gold_priority
    lastGold,          \* record of the gold read that completed last
    use_redis,         \* HybridCache._use_redis (config.redis.enabled)
    redis_failed,      \* HybridCache._redis_failed
    redis_connected,   \* RedisCache._connected
    redisStore,        \* the keys the Redis server holds: key -> value, expiry
    lastCache,         \* record of the HybridCache call that completed last
    pendingRate,       \* per caller, the get_rate call awaiting its providers
    max_concurrent,    \* config.http.max_concurrent
    semaphore,         \* HttpClient._semaphore: <<>> for None, else <<its value>>
    http_state,        \* per client, where its HttpClient.fetch call stands
    http_attempt,      \* per client, the attempt of _fetch_internal's loop
    http_calls,        \* per client, the fetch calls it has started
    http_waited,       \* per client, whether its call had to wait for a slot
    pendingSet,        \* per caller, the async_set call awaiting Redis
    lastInit           \* what the Database.init call made last returned, <<>> before any

fetchVars == <<now, ticks, calls, fileCache, quote_priority, forex_priority,
               fallback_enabled, last>>

storeVars == <<table, pending, db_pool, db_enabled, lastSave>>

goldVars == <<lastQuery, today, days, schedules, local_data, gold_priority, lastGold>>

redisVars == <<use_redis, redis_failed, redis_connected, redisStore, lastCache>>

flightVars == <<pendingRate>>

httpVars == <<max_concurrent, semaphore, http_state, http_attempt, http_calls,
              http_waited>>

setVars == <<pendingSet>>

dbVars == <<lastInit>>

extVars == <<goldVars, redisVars, flightVars, httpVars, setVars, dbVars>>

vars == <<fetchVars, storeVars, extVars>>

-----------------------------------------------------------------------------
(* Bounds of the model *)

MaxTicks == 2
MaxCalls == 2
\* raw cache operations in one behaviour
MaxCacheOps == 3
MaxDays == 2
MaxRequests == 1

\* Monday 11:29:40, twenty seconds before the CN morning session ends
StartTimes == {11 * 3600 + 29 * 60 + 40}

TickSteps == {20, 100}

-----------------------------------------------------------------------------
(* Configuration: core/config.py *)

quote_ttl == 300
quote_ttl_trading == 30
forex_ttl == 3600

cn_morning_start == <<9, 30>>
cn_morning_end == <<11, 30>>
cn_afternoon_start == <<13, 0>>
cn_afternoon_end == <<15, 0>>
hk_morning_start == <<9, 30>>
hk_morning_end == <<12, 0>>
hk_afternoon_start == <<13, 0>>
hk_afternoon_end == <<16, 0>>
us_pre_market_start == <<21, 30>>
us_pre_market_end == <<4, 0>>

DefaultQuotePriority == <<"eastmoney", "sina", "yahoo">>
DefaultForexPriority == <<"frankfurter", "exchangerate">>

\* the priority lists a deployment is configured with here; "tushare" and
\* "ecb" name no provider the services know
AltQuotePriority == <<"tushare", "sina", "eastmoney">>
AltForexPriority == <<"ecb", "exchangerate", "frankfurter">>

\* the source settings a deployment runs with here
Configs ==
    {[quote_priority |-> q[1], forex_priority |-> q[2], fallback_enabled |-> f] :
        q \in {<<DefaultQuotePriority, DefaultForexPriority>>,
               <<AltQuotePriority, AltForexPriority>>},
        f \in BOOLEAN}

-----------------------------------------------------------------------------
(* Trading calendar: utils/time_util.py *)

SecondsPerDay == 24 * 3600

\* _parse_time("HH:MM") -> time(HH, MM), as a second of the day
ParseTime(hm) == hm[1] * 3600 + hm[2] * 60

Weekday(t) == (t \div SecondsPerDay) % 7

TimeOfDay(t) == t % SecondsPerDay

\* config.trading_hours with its defaults
DefaultTradingHours ==
    [cn_morning_start |-> cn_morning_start, cn_morning_end |-> cn_morning_end,
     cn_afternoon_start |-> cn_afternoon_start,
     cn_afternoon_end |-> cn_afternoon_end,
     hk_morning_start |-> hk_morning_start, hk_morning_end |-> hk_morning_end,
     hk_afternoon_start |-> hk_afternoon_start,
     hk_afternoon_end |-> hk_afternoon_end,
     us_pre_market_start |-> us_pre_market_start,
     us_pre_market_end |-> us_pre_market_end]

\* the settings FCLI_TRADING_HOURS_* give here: the defaults, a US session
\* inside one day, and a US session that starts and ends at the same minute
TradingHoursConfigs ==
    {DefaultTradingHours,
     [DefaultTradingHours EXCEPT !.us_pre_market_start = <<9, 30>>,
                                 !.us_pre_market_end = <<16, 0>>],
     [DefaultTradingHours EXCEPT !.us_pre_market_start = <<4, 0>>,
                                 !.us_pre_market_end = <<4, 0>>]}

\* the members of Market
Markets == {"CN", "HK", "US", "FUND", "GLOBAL", "FOREX", "BOND"}

\* the times is_trading_hours is asked about: Monday, Saturday and
\* Sunday, at the session bounds and one second to either side of them
CheckDays == {0, 5, 6}
CheckClock ==
    {0, 1, 4 * 3600 - 1, 4 * 3600, 4 * 3600 + 1,
     9 * 3600 + 30 * 60 - 1, 9 * 3600 + 30 * 60, 10 * 3600,
     11 * 3600 + 30 * 60, 11 * 3600 + 30 * 60 + 1,
     12 * 3600, 12 * 3600 + 1, 13 * 3600 - 1, 13 * 3600,
     15 * 3600, 15 * 3600 + 1, 16 * 3600, 16 * 3600 + 1,
     21 * 3600 + 30 * 60 - 1, 21 * 3600 + 30 * 60, SecondsPerDay - 1}
CheckTimes == {d * SecondsPerDay + c : d \in CheckDays, c \in CheckClock}

\* weekday >= 5 with Saturday taken for a working day
is_weekend_sunday_only(weekday) == weekday > 5

\* if weekday >= 5: return False
is_weekend(weekday) == weekday >= 5

\* the US branch with the comparison that spans midnight left out
in_session_same_day(start, end, current_time) ==
    start <= current_time /\ current_time <= end

\* the US branch: start > end spans the day boundary
in_session(start, end, current_time) ==
    IF start > end
    THEN current_time >= start \/ current_time <= end
    ELSE start <= current_time /\ current_time <= end

\* is_trading_hours(market, check_time) under the settings th
is_trading_hours_with(th, market, t) ==
    LET current_time == TimeOfDay(t)
        weekday == Weekday(t)
    IN  IF is_weekend(weekday) THEN FALSE
        ELSE IF market = "CN" THEN
               \/ (ParseTime(th.cn_morning_start) <= current_time
                     /\ current_time <= ParseTime(th.cn_morning_end))
               \/ (ParseTime(th.cn_afternoon_start) <= current_time
                     /\ current_time <= ParseTime(th.cn_afternoon_end))
        ELSE IF market = "HK" THEN
               \/ (ParseTime(th.hk_morning_start) <= current_time
                     /\ current_time <= ParseTime(th.hk_morning_end))
               \/ (ParseTime(th.hk_afternoon_start) <= current_time
                     /\ current_time <= ParseTime(th.hk_afternoon_end))
        ELSE IF market = "US" THEN
               in_session(ParseTime(th.us_pre_market_start),
                          ParseTime(th.us_pre_market_end), current_time)
        ELSE FALSE

\* is_trading_hours under the default settings
is_trading_hours(market, t) == is_trading_hours_with(DefaultTradingHours, market, t)

get_cache_ttl_swapped(market, t) ==
    IF is_trading_hours(market, t) THEN quote_ttl ELSE quote_ttl_trading

get_cache_ttl(market, t) ==
    IF is_trading_hours(market, t) THEN quote_ttl_trading ELSE quote_ttl

-----------------------------------------------------------------------------
(* Cache: core/cache.py.  Redis is disabled (config.redis.enabled = False), *)
(* so HybridCache.get/async_get and set/async_set are the file cache's.     *)

\* a get that still serves an entry at the instant it expires
CacheGetInclusive(c, key, t) ==
    IF key \in DOMAIN c /\ c[key].expire_at >= t THEN <<c[key].data>> ELSE <<>>

\* FileCache.get, the value returned
CacheGet(c, key, t) ==
    IF key \in DOMAIN c /\ c[key].expire_at > t THEN <<c[key].data>> ELSE <<>>

\* FileCache.get, the cache it leaves: an entry found expired is deleted
CacheAfterGet(c, key, t) ==
    IF key \in DOMAIN c /\ ~(c[key].expire_at > t)
    THEN [k \in DOMAIN c \ {key} |-> c[k]]
    ELSE c

\* FileCache.set
CacheSet(c, key, data, ttl, t) ==
    [k \in DOMAIN c \cup {key} |->
        IF k = key THEN [data |-> data, expire_at |-> t + ttl] ELSE c[k]]

\* FileCache.delete
CacheDelete(c, key) == [k \in DOMAIN c \ {key} |-> c[k]]

\* FileCache.clear
CacheClear == [k \in {} |-> 0]

-----------------------------------------------------------------------------
(* Entities *)

A1 == [code |-> "600519", market |-> "CN", type |-> "STOCK"]
A2 == [code |-> "000001", market |-> "CN", type |-> "STOCK"]
F1 == [code |-> "110022", market |-> "FUND", type |-> "FUND"]
G1 == [code |-> "DJI", market |-> "GLOBAL", type |-> "INDEX"]

Assets == {A1, A2, F1, G1}

\* the asset lists fetch_all is called with
Requests == {<<A1>>, <<F1>>, <<A1, A2>>, <<G1, A1>>, <<A2, F1>>,
             <<A1, A2, F1, G1>>}

TTLRequests == {<<A1, G1>>}

\* a fund fetched singly next to a CN stock, and a global index next to one
GatherRequests == {<<A2, F1>>, <<G1, A1>>}

\* the currency arguments get_rate is called with
\* keys, values and lifetimes of the raw cache operations; a lifetime equal
\* to a clock step puts a read exactly on the expiry instant
CacheKeys == {<<"k1">>, <<"k2">>}
CacheData == {"a", "b"}
RedisKeys == {<<"k1">>}
CacheTTLs == TickSteps

CurrencyArgs == {<<"usd", "cny">>, <<"USD", "CNY">>}

\* str.upper() on the currency codes in use
Upper(s) == CASE s = "usd" -> "USD"
              [] s = "cny" -> "CNY"
              [] OTHER -> s

QuoteKey(asset) == <<"quote", asset.code>>
ForexKey(from, to) == <<"forex", from, to>>

Outcomes == {"ok", "none", "raise"}

-----------------------------------------------------------------------------
(* Providers, as QuoteService and ForexService call them *)

QuoteSources == {"sina", "eastmoney", "yahoo"}
ForexSources == {"frankfurter", "exchangerate"}

BatchMarkets == {"GLOBAL", "CN", "HK", "US"}

\* what QuoteService._fetch_<source>(asset) can do: _fetch_yahoo returns None,
\* _fetch_sina and _fetch_eastmoney return None for a market they have no
\* endpoint for, and otherwise return a quote, return None or raise
SourceOutcomes(source, asset) ==
    IF source = "yahoo" THEN {"none"}
    ELSE IF source = "sina" THEN
        IF asset.type = "FUND" \/ asset.market \in BatchMarkets
        THEN Outcomes ELSE {"none"}
    ELSE IF asset.market \in BatchMarkets THEN Outcomes ELSE {"none"}

\* the price a source quotes; sources quote different prices
SourcePrice(source) == CASE source = "sina" -> 101
                         [] source = "eastmoney" -> 102
                         [] OTHER -> 0

\* price = float(parts[3]) if parts[3] else 0.0: a payload with an empty
\* price field ("zero") parses to the price 0.0
ParsedPrice(source, outcome) ==
    IF outcome = "zero" THEN 0 ELSE SourcePrice(source)

\* the Quote a _fetch_* method builds at time t
SourceQuote(source, asset, t) ==
    [code |-> asset.code, price |-> SourcePrice(source),
     update_time |-> <<"datetime", t>>]

\* QuoteService._quote_to_dict: update_time becomes its ISO string
quote_to_dict(quote) ==
    [code |-> quote.code, price |-> quote.price,
     update_time |-> IF quote.update_time[1] = "datetime"
                     THEN <<"iso", quote.update_time[2]>>
                     ELSE quote.update_time]

\* Quote(**cached)
QuoteFromDict(d) ==
    [code |-> d.code, price |-> d.price, update_time |-> d.update_time]

\* the ExchangeRate _fetch_frankfurter / _fetch_exchangerate build
SourceRate(source, from, to) ==
    [from_currency |-> from, to_currency |-> to,
     rate |-> IF source = "frankfurter" THEN 71 ELSE 72,
     date |-> "2025-01-06",
     source |-> IF source = "frankfurter"
                THEN "Frankfurter (ECB)" ELSE "ExchangeRate-API"]

\* the dict get_rate caches, and ExchangeRate(**cached)
RateToDict(rate) ==
    [from_currency |-> rate.from_currency, to_currency |-> rate.to_currency,
     rate |-> rate.rate, date |-> rate.date, source |-> rate.source]
RateFromDict(d) ==
    [from_currency |-> d.from_currency, to_currency |-> d.to_currency,
     rate |-> d.rate, date |-> d.date, source |-> d.source]

\* the outcomes one walk of a priority list can meet: one per position, and
\* "none" at a position that names no provider
QuoteWalkOutcomes(prio, asset) ==
    {o \in [1..Len(prio) -> Outcomes] :
        \A i \in 1..Len(prio) :
            IF prio[i] \in QuoteSources
            THEN o[i] \in SourceOutcomes(prio[i], asset)
            ELSE o[i] = "none"}

\* the same with payloads that parse to a non-positive price: a source that
\* can answer the asset can also answer with an empty price field
SanityWalkOutcomes(prio, asset) ==
    {o \in [1..Len(prio) -> Outcomes \cup {"zero"}] :
        \A i \in 1..Len(prio) :
            IF prio[i] \in QuoteSources
            THEN \/ o[i] \in SourceOutcomes(prio[i], asset)
                 \/ o[i] = "zero" /\ "ok" \in SourceOutcomes(prio[i], asset)
            ELSE o[i] = "none"}

ForexWalkOutcomes(prio) ==
    {o \in [1..Len(prio) -> Outcomes] :
        \A i \in 1..Len(prio) : prio[i] \notin ForexSources => o[i] = "none"}

-----------------------------------------------------------------------------
(* QuoteService.fetch_single *)

\* a walk that leaves out the first entry of the list and asks the second
\* one only: what the loop would do if it did not start at the head
QuoteWalkFromSecond(prio, fallback, asset, i, o, t) ==
    IF Len(prio) < 2 \/ prio[2] \notin QuoteSources
    THEN [value |-> <<>>, raised |-> FALSE, invoked |-> <<>>, failed |-> <<>>]
    ELSE IF o[2] = "ok"
    THEN [value |-> <<SourceQuote(prio[2], asset, t)>>, raised |-> FALSE,
          invoked |-> <<prio[2]>>, failed |-> <<>>]
    ELSE [value |-> <<>>, raised |-> o[2] = "raise" /\ ~fallback,
          invoked |-> <<prio[2]>>, failed |-> <<prio[2]>>]

\* the loop over config.source.quote_priority, from position i on
RECURSIVE QuoteWalk(_, _, _, _, _, _)
QuoteWalk(prio, fallback, asset, i, o, t) ==
    IF i > Len(prio)
    THEN [value |-> <<>>, raised |-> FALSE, invoked |-> <<>>, failed |-> <<>>]
    ELSE LET source == prio[i] IN
         IF source \notin QuoteSources
         THEN QuoteWalk(prio, fallback, asset, i + 1, o, t)
         ELSE IF o[i] \in {"ok", "zero"}
         THEN [value |-> <<[SourceQuote(source, asset, t) EXCEPT
                               !.price = ParsedPrice(source, o[i])]>>,
               raised |-> FALSE,
               invoked |-> <<source>>, failed |-> <<>>]
         ELSE IF o[i] = "raise" /\ ~fallback
         THEN [value |-> <<>>, raised |-> TRUE, invoked |-> <<source>>,
               failed |-> <<source>>]
         ELSE LET r == QuoteWalk(prio, fallback, asset, i + 1, o, t)
              IN  [r EXCEPT !.invoked = <<source>> \o r.invoked,
                            !.failed = <<source>> \o r.failed]

\* fetch_single without the cache lookup: every call walks the providers
fetch_single_uncached(c, prio, fallback, asset, o, t) ==
    LET cache_key == QuoteKey(asset)
        w == QuoteWalk(prio, fallback, asset, 1, o, t)
    IN  [cache |-> IF w.value # <<>>
                   THEN CacheSet(c, cache_key, quote_to_dict(w.value[1]),
                                 get_cache_ttl(asset.market, t), t)
                   ELSE c,
         value |-> w.value, raised |-> w.raised, invoked |-> w.invoked,
         failed |-> w.failed, hit |-> FALSE]

\* fetch_single(asset) at time t on cache c: the cache it leaves, the quote
\* it returns (or none), whether it raised, the sources invoked in order
\* and those of them that failed
fetch_single(c, prio, fallback, asset, o, t) ==
    LET cache_key == QuoteKey(asset)
        cached == CacheGet(c, cache_key, t)
        c1 == CacheAfterGet(c, cache_key, t)
    IN  IF cached # <<>>
        THEN [cache |-> c1, value |-> <<QuoteFromDict(cached[1])>>,
              raised |-> FALSE, invoked |-> <<>>, failed |-> <<>>,
              hit |-> TRUE]
        ELSE LET w == QuoteWalk(prio, fallback, asset, 1, o, t) IN
             [cache |-> IF w.value # <<>>
                        THEN CacheSet(c1, cache_key, quote_to_dict(w.value[1]),
                                      get_cache_ttl(asset.market, t), t)
                        ELSE c1,
              value |-> w.value, raised |-> w.raised, invoked |-> w.invoked,
              failed |-> w.failed, hit |-> FALSE]

-----------------------------------------------------------------------------
(* QuoteService.fetch_all *)

Range(s) == {s[i] : i \in 1..Len(s)}

RECURSIVE Filter(_, _)
\* the subsequence of s of the elements in the set keep
Filter(s, keep) ==
    IF s = <<>> THEN <<>>
    ELSE IF Head(s) \in keep THEN <<Head(s)>> \o Filter(Tail(s), keep)
    ELSE Filter(Tail(s), keep)

\* the cache after the cache.get of every requested asset
RECURSIVE CacheAfterGets(_, _, _)
CacheAfterGets(c, assets, t) ==
    IF assets = <<>> THEN c
    ELSE CacheAfterGets(CacheAfterGet(c, QuoteKey(Head(assets)), t),
                        Tail(assets), t)

\* the assets fetch_all finds in the cache / has to fetch
CachedAssets(c, assets, t) ==
    {a \in Range(assets) : CacheGet(c, QuoteKey(a), t) # <<>>}
RemainingAssets(c, assets, t) ==
    Filter(assets, Range(assets) \ CachedAssets(c, assets, t))

\* grouping by market: funds and markets without a batch API go one by one
OtherAssets(remaining) ==
    Filter(remaining, {a \in Range(remaining) :
                          a.type = "FUND" \/ a.market \notin BatchMarkets})
MarketGroup(remaining, market) ==
    Filter(remaining, {a \in Range(remaining) :
                          a.type # "FUND" /\ a.market = market})

\* the source a market group's batch call goes to
BatchSource(market) == IF market = "GLOBAL" THEN "eastmoney" ELSE "sina"

\* what one batch call can do for a group: return no data; answer some of
\* the assets (done); raise after it has parsed and cached the first assets.
\* No call is made for an empty group
BatchOutcomes(group) ==
    IF group = <<>> THEN {[kind |-> "none", done |-> {}]}
    ELSE {[kind |-> "none", done |-> {}]}
         \cup {[kind |-> "ok", done |-> S] : S \in SUBSET Range(group)}
         \cup {[kind |-> "raise", done |-> Range(SubSeq(group, 1, n))] :
                   n \in 0..(Len(group) - 1)}

\* the cache after the quotes of the assets in done were written
RECURSIVE CacheSetQuotes(_, _, _, _, _)
CacheSetQuotes(c, group, done, source, t) ==
    IF group = <<>> THEN c
    ELSE LET a == Head(group)
             c1 == IF a \in done
                   THEN CacheSet(c, QuoteKey(a),
                                 quote_to_dict(SourceQuote(source, a, t)),
                                 get_cache_ttl(a.market, t), t)
                   ELSE c
         IN  CacheSetQuotes(c1, Tail(group), done, source, t)

\* the values of the tasks that did not raise, in task order
RECURSIVE GatheredValues(_)
GatheredValues(tasks) ==
    IF tasks = <<>> THEN <<>>
    ELSE (IF Head(tasks).raised THEN <<>> ELSE Head(tasks).values)
             \o GatheredValues(Tail(tasks))

\* a gather that lets the first exception through, whatever the flag
GatherRaising(tasks, return_exceptions) ==
    IF \E i \in 1..Len(tasks) : tasks[i].raised
    THEN [raised |-> TRUE, values |-> <<>>]
    ELSE [raised |-> FALSE, values |-> GatheredValues(tasks)]

\* await asyncio.gather(*tasks, return_exceptions=...) followed by the
\* isinstance filter on the results; a task is what its coroutine returned
\* (values) or that it raised
Gather(tasks, return_exceptions) ==
    IF ~return_exceptions /\ \E i \in 1..Len(tasks) : tasks[i].raised
    THEN [raised |-> TRUE, values |-> <<>>]
    ELSE [raised |-> FALSE, values |-> GatheredValues(tasks)]

\* _fetch_sina_batch / _fetch_global_batch on one market group: the cache it
\* leaves and the quotes that reach fetch_all's result.  A sina batch that
\* raises returns []; a global batch that raises is dropped by gather
fetch_batch(c, group, market, out, t) ==
    LET source == BatchSource(market)
        returned == IF out.kind = "ok" THEN Filter(group, out.done) ELSE <<>>
    IN  [cache |-> CacheSetQuotes(c, group, out.done, source, t),
         values |-> [i \in 1..Len(returned) |->
                        SourceQuote(source, returned[i], t)],
         raised |-> market = "GLOBAL" /\ out.kind = "raise",
         answered |-> Range(returned)]

\* _fetch_others_batch: fetch_single for each asset, exceptions dropped
RECURSIVE fetch_others_batch(_, _, _, _, _, _)
fetch_others_batch(c, prio, fallback, others, single, t) ==
    IF others = <<>>
    THEN [cache |-> c, tasks |-> <<>>, values |-> <<>>, raised |-> FALSE,
          walks |-> <<>>]
    ELSE LET a == Head(others)
             r == fetch_single(c, prio, fallback, a, single[a], t)
             rest == fetch_others_batch(r.cache, prio, fallback, Tail(others),
                                        single, t)
             tasks == <<[values |-> r.value, raised |-> r.raised]>> \o rest.tasks
             got == Gather(tasks, TRUE)
         IN  [cache |-> rest.cache,
              tasks |-> tasks,
              values |-> got.values,
              raised |-> got.raised,
              walks |-> <<[asset |-> a, invoked |-> r.invoked,
                           failed |-> r.failed]>> \o rest.walks]

\* what the providers do during one fetch_all: a batch outcome per market
\* group and the outcomes of the walk of each asset fetched singly
FetchAllEnvs(c, prio, assets, t) ==
    LET remaining == RemainingAssets(c, assets, t)
        others == Range(OtherAssets(remaining))
    IN  {[batch |-> [m \in BatchMarkets |->
                        CASE m = "GLOBAL" -> oG
                          [] m = "CN" -> oC
                          [] m = "HK" -> oH
                          [] OTHER -> oU],
          single |-> s] :
            oG \in BatchOutcomes(MarketGroup(remaining, "GLOBAL")),
            oC \in BatchOutcomes(MarketGroup(remaining, "CN")),
            oH \in BatchOutcomes(MarketGroup(remaining, "HK")),
            oU \in BatchOutcomes(MarketGroup(remaining, "US")),
            s \in {f \in [others -> [1..Len(prio) -> Outcomes]] :
                      \A a \in others : f[a] \in QuoteWalkOutcomes(prio, a)}}

fetch_all(c, prio, fallback, assets, env, t) ==
    LET hitSet == CachedAssets(c, assets, t)
        hitSeq == Filter(assets, hitSet)
        quotes == [i \in 1..Len(hitSeq) |->
                      QuoteFromDict(CacheGet(c, QuoteKey(hitSeq[i]), t)[1])]
        c0 == CacheAfterGets(c, assets, t)
        remaining == RemainingAssets(c, assets, t)
        gG == MarketGroup(remaining, "GLOBAL")
        gC == MarketGroup(remaining, "CN")
        gH == MarketGroup(remaining, "HK")
        gU == MarketGroup(remaining, "US")
        rG == fetch_batch(c0, gG, "GLOBAL", env.batch["GLOBAL"], t)
        rC == fetch_batch(rG.cache, gC, "CN", env.batch["CN"], t)
        rH == fetch_batch(rC.cache, gH, "HK", env.batch["HK"], t)
        rU == fetch_batch(rH.cache, gU, "US", env.batch["US"], t)
        rO == fetch_others_batch(rU.cache, prio, fallback,
                                 OtherAssets(remaining), env.single, t)
        answered == rG.answered \cup rC.answered \cup rH.answered
                       \cup rU.answered
        walkOf(a) == CHOOSE w \in Range(rO.walks) : w.asset = a
        got == Gather(<<rG, rC, rH, rU, rO>>, TRUE)
    IN  [cache |-> rO.cache,
         values |-> quotes \o got.values,
         raised |-> got.raised,
         hits |-> hitSet,
         invoked |-> [i \in 1..Len(assets) |->
                        LET a == assets[i] IN
                        IF a \in hitSet THEN <<>>
                        ELSE IF a \in Range(OtherAssets(remaining))
                        THEN walkOf(a).invoked
                        ELSE <<BatchSource(a.market)>>],
         failed |-> [i \in 1..Len(assets) |->
                        LET a == assets[i] IN
                        IF a \in hitSet THEN <<>>
                        ELSE IF a \in Range(OtherAssets(remaining))
                        THEN walkOf(a).failed
                        ELSE IF a \in answered THEN <<>>
                        ELSE <<BatchSource(a.market)>>]]

-----------------------------------------------------------------------------
(* ForexService.get_rate *)

RECURSIVE ForexWalk(_, _, _, _, _, _)
ForexWalk(prio, fallback, from, to, i, o) ==
    IF i > Len(prio)
    THEN [value |-> <<>>, raised |-> FALSE, invoked |-> <<>>, failed |-> <<>>]
    ELSE LET source == prio[i] IN
         IF source \notin ForexSources
         THEN ForexWalk(prio, fallback, from, to, i + 1, o)
         ELSE IF o[i] = "ok"
         THEN [value |-> <<SourceRate(source, from, to)>>, raised |-> FALSE,
               invoked |-> <<source>>, failed |-> <<>>]
         ELSE IF o[i] = "raise" /\ ~fallback
         THEN [value |-> <<>>, raised |-> TRUE, invoked |-> <<source>>,
               failed |-> <<source>>]
         ELSE LET r == ForexWalk(prio, fallback, from, to, i + 1, o)
              IN  [r EXCEPT !.invoked = <<source>> \o r.invoked,
                            !.failed = <<source>> \o r.failed]

get_rate(c, prio, fallback, from_currency, to_currency, o, t) ==
    LET from == Upper(from_currency)
        to == Upper(to_currency)
        cache_key == ForexKey(from, to)
        cached == CacheGet(c, cache_key, t)
        c1 == CacheAfterGet(c, cache_key, t)
    IN  IF cached # <<>>
        THEN [cache |-> c1, value |-> <<RateFromDict(cached[1])>>,
              raised |-> FALSE, invoked |-> <<>>, failed |-> <<>>,
              hit |-> TRUE]
        ELSE LET w == ForexWalk(prio, fallback, from, to, 1, o) IN
             [cache |-> IF w.value # <<>>
                        THEN CacheSet(c1, cache_key, RateToDict(w.value[1]),
                                      forex_ttl, t)
                        ELSE c1,
              value |-> w.value, raised |-> w.raised, invoked |-> w.invoked,
              failed |-> w.failed, hit |-> FALSE]

\* COMMON_CURRENCIES, abridged to three
COMMON_CURRENCIES == <<"USD", "CNY", "EUR">>

\* the base currency get_all_rates is called with
BaseArgs == {"usd", "USD"}

ForexAllKey(base) == <<"forex", "all", base>>

\* the get_rate(base, currency) tasks of get_all_rates, run in list order
RECURSIVE GetRateTasks(_, _, _, _, _, _, _)
GetRateTasks(c, prio, fallback, base, currencies, env, t) ==
    IF currencies = <<>> THEN [cache |-> c, tasks |-> <<>>, walks |-> <<>>]
    ELSE IF Head(currencies) = base
    THEN GetRateTasks(c, prio, fallback, base, Tail(currencies), env, t)
    ELSE LET currency == Head(currencies)
             r == get_rate(c, prio, fallback, base, currency, env[currency], t)
             rest == GetRateTasks(r.cache, prio, fallback, base,
                                  Tail(currencies), env, t)
         IN  [cache |-> rest.cache,
              tasks |-> <<[values |-> r.value, raised |-> r.raised]>>
                            \o rest.tasks,
              walks |-> <<[key |-> ForexKey(base, currency), hit |-> r.hit,
                           invoked |-> r.invoked, failed |-> r.failed]>>
                            \o rest.walks]

\* the providers' outcomes for each currency during one get_all_rates
GetAllRatesEnvs(prio) ==
    [Range(COMMON_CURRENCIES) -> ForexWalkOutcomes(prio)]

\* ForexService.get_all_rates; the rates dict as the sequence of its values
get_all_rates(c, prio, fallback, base_currency, env, t) ==
    LET base == Upper(base_currency)
        cache_key == ForexAllKey(base)
        cached == CacheGet(c, cache_key, t)
        c1 == CacheAfterGet(c, cache_key, t)
    IN  IF cached # <<>> /\ cached[1] # <<>>
        THEN [cache |-> c1,
              values |-> [i \in 1..Len(cached[1]) |-> RateFromDict(cached[1][i])],
              raised |-> FALSE, hit |-> TRUE, walks |-> <<>>]
        ELSE LET g == GetRateTasks(c1, prio, fallback, base,
                                   COMMON_CURRENCIES, env, t)
                 got == Gather(g.tasks, TRUE)
             IN  IF got.raised
                 THEN [cache |-> g.cache, values |-> <<>>, raised |-> TRUE,
                       hit |-> FALSE, walks |-> g.walks]
                 ELSE [cache |-> CacheSet(g.cache, cache_key,
                                    [i \in 1..Len(got.values) |->
                                        RateToDict(got.values[i])],
                                    forex_ttl, t),
                       values |-> got.values, raised |-> FALSE,
                       hit |-> FALSE, walks |-> g.walks]

\* the coroutines that call get_rate concurrently
Callers == {"p1", "p2"}

\* get_rate from the priority loop on, after the cache lookup missed
get_rate_fetch(c, prio, fallback, from, to, o, t) ==
    LET w == ForexWalk(prio, fallback, from, to, 1, o) IN
    [cache |-> IF w.value # <<>>
               THEN CacheSet(c, ForexKey(from, to), RateToDict(w.value[1]),
                             forex_ttl, t)
               ELSE c,
     value |-> w.value, raised |-> w.raised, invoked |-> w.invoked,
     failed |-> w.failed, hit |-> FALSE]

-----------------------------------------------------------------------------
(* The record of a completed call:                                         *)
(*   op       the operation                                                *)
(*   req      the cache keys of the entities asked for, in request order   *)
(*   hits     the entities answered from the cache                         *)
(*   values   what was returned, in order (empty for None)                 *)
(*   raised   whether the call raised                                      *)
(*   invoked  per entity asked for, the sources called for it, in order    *)
(*   failed   per entity asked for, the sources called for it that raised  *)
(*            or returned no data for it                                   *)
(*   evicted  the cache keys the call deleted                              *)

NoCall == [op |-> "none", req |-> <<>>, hits |-> {}, values |-> <<>>,
           raised |-> FALSE, invoked |-> <<>>, failed |-> <<>>,
           evicted |-> {}]

-----------------------------------------------------------------------------
(* The gold_reserves table and GoldReserveStore.save_batch                 *)
(* A row is the columns save_batch writes: the key columns country_code    *)
(* and report_date, and of the updated columns amount_tonnes, data_source  *)
(* and fetch_time.                                                         *)

\* the two programs that write gold reserves: GoldService
\* .fetch_all_with_auto_update and scripts/save_gold_reserves.py
Writers == {"service", "script"}

\* what a writer's source returned: the service tags rows with the source
\* that answered, the script's rows come from the IMF scraper
WGC_CHN == [country_code |-> "CHN", report_date |-> <<2025, 1>>,
            amount_tonnes |-> 2264, data_source |-> "WGC"]
WGC_CHN_REVISED == [WGC_CHN EXCEPT !.amount_tonnes = 2280]
WGC_USA == [country_code |-> "USA", report_date |-> <<2025, 1>>,
            amount_tonnes |-> 8133, data_source |-> "WGC"]
IMF_CHN == [country_code |-> "CHN", report_date |-> <<2025, 1>>,
            amount_tonnes |-> 2279, data_source |-> "IMF"]
IMF_CHN_FEB == [country_code |-> "CHN", report_date |-> <<2025, 2>>,
                amount_tonnes |-> 2290, data_source |-> "IMF"]

FetchedData(writer) ==
    IF writer = "service"
    THEN {<<WGC_CHN>>, <<WGC_CHN, WGC_USA>>, <<WGC_CHN, WGC_CHN_REVISED>>}
    ELSE {<<IMF_CHN>>, <<IMF_CHN, IMF_CHN_FEB>>}

\* GoldReserve(..., fetch_time=datetime.now()) for every fetched row
Stamp(data, t) ==
    [i \in 1..Len(data) |->
        [country_code |-> data[i].country_code,
         report_date |-> data[i].report_date,
         amount_tonnes |-> data[i].amount_tonnes,
         data_source |-> data[i].data_source,
         fetch_time |-> t]]

\* UNIQUE KEY uk_country_date (country_code, report_date)
ReserveKey(r) == <<r.country_code, r.report_date>>

\* an insert into a table without the unique key
UpsertWithoutKey(rows, r) == rows \cup {r}

\* an upsert that keeps the stored row when its fetch_time is newer
UpsertIfNewer(rows, r) ==
    IF \E x \in rows : ReserveKey(x) = ReserveKey(r)
    THEN {IF ReserveKey(x) = ReserveKey(r) /\ r.fetch_time >= x.fetch_time
          THEN [x EXCEPT !.amount_tonnes = r.amount_tonnes,
                         !.data_source = r.data_source,
                         !.fetch_time = r.fetch_time]
          ELSE x : x \in rows}
    ELSE rows \cup {r}

\* INSERT INTO gold_reserves ... ON DUPLICATE KEY UPDATE ... for one row
Upsert(rows, r) ==
    IF \E x \in rows : ReserveKey(x) = ReserveKey(r)
    THEN {IF ReserveKey(x) = ReserveKey(r)
          THEN [x EXCEPT !.amount_tonnes = r.amount_tonnes,
                         !.data_source = r.data_source,
                         !.fetch_time = r.fetch_time]
          ELSE x : x \in rows}
    ELSE rows \cup {r}

\* cur.executemany(sql, values): the rows in list order, from position i on
RECURSIVE ExecuteMany(_, _, _)
ExecuteMany(rows, values, i) ==
    IF i > Len(values) THEN rows
    ELSE ExecuteMany(Upsert(rows, values[i]), values, i + 1)

\* Database.is_enabled()
is_enabled(pool, enabled) == enabled /\ pool

\* GoldReserveStore.save_batch of core/stores/gold.py; ok: the database
\* executed the statement (it raises otherwise and stores nothing)
save_batch(rows, enabled, reserves, ok) ==
    IF ~enabled \/ reserves = <<>>
    THEN [table |-> rows, count |-> 0, raised |-> FALSE]
    ELSE IF ~ok
    THEN [table |-> rows, count |-> 0, raised |-> TRUE]
    ELSE [table |-> ExecuteMany(rows, reserves, 1), count |-> Len(reserves),
          raised |-> FALSE]

\* GoldReserveStore.save_batch of core/database.py, the one GoldService calls
database_save_batch(rows, enabled, reserves, ok) ==
    IF ~enabled
    THEN [table |-> rows, count |-> 0, raised |-> TRUE]
    ELSE IF reserves = <<>>
    THEN [table |-> rows, count |-> 0, raised |-> FALSE]
    ELSE IF ~ok
    THEN [table |-> rows, count |-> 0, raised |-> TRUE]
    ELSE [table |-> ExecuteMany(rows, reserves, 1), count |-> Len(reserves),
          raised |-> FALSE]

\* lastSave: the writer, the batch it handed over, the count returned,
\* whether the call raised, and the rows the batch found stored under its keys
NoSave == [op |-> "none", by |-> "none", batch |-> <<>>, count |-> 0,
           raised |-> FALSE, replaced |-> {}]

-----------------------------------------------------------------------------
(* The delta queries of GoldReserveStore.  report_date is <<year, month>>;  *)
(* every stored date is the first day of its month.  A scalar subquery or   *)
(* a joined column that may be NULL is a sequence of length 0 or 1.  The    *)
(* result is the set of rows returned (their order is not modelled).        *)

\* what save_history_reserves of scripts/save_gold_reserves.py fetched: rows
\* of several periods, tagged "IMF"
Hist(code, year, month, amount) ==
    [country_code |-> code, report_date |-> <<year, month>>,
     amount_tonnes |-> amount, data_source |-> "IMF"]

HistoryData ==
    {<<Hist("CHN", 2024, 1, 2235), Hist("CHN", 2024, 3, 2262)>>,
     <<Hist("USA", 2024, 2, 8133)>>,
     <<Hist("USA", 2024, 3, 8133), Hist("USA", 2024, 2, 8133)>>,
     <<Hist("CHN", 2023, 2, 2050), Hist("CHN", 2024, 3, 2262)>>,
     <<Hist("CHN", 2023, 3, 2068)>>}

\* dates compare by month count
MonthsOf(d) == d[1] * 12 + (d[2] - 1)

\* DATE_SUB(d, INTERVAL 1 YEAR)
DateSubYear(d) == <<d[1] - 1, d[2]>>

\* SELECT MAX(report_date) over a non-empty set of dates
MaxDate(dates) == CHOOSE d \in dates : \A e \in dates : MonthsOf(e) <= MonthsOf(d)

\* the rows of one country
RowsOf(rows, code) == {r \in rows : r.country_code = code}

\* the CTE latest: per country the row of its MAX(report_date)
LatestRows(rows) ==
    {r \in rows :
        r.report_date = MaxDate({x.report_date : x \in RowsOf(rows, r.country_code)})}

\* SELECT DISTINCT report_date FROM gold_reserves ORDER BY report_date DESC
\* LIMIT 1 OFFSET 1: the second newest date of the whole table
SecondNewestDate(rows) ==
    LET dates == {r.report_date : r \in rows} IN
    IF Cardinality(dates) < 2 THEN <<>>
    ELSE <<MaxDate(dates \ {MaxDate(dates)})>>

\* the amount a LEFT JOIN finds for a country at a date that may be NULL
AmountAt(rows, code, date) ==
    IF date = <<>> THEN <<>>
    ELSE LET found == {r \in RowsOf(rows, code) : r.report_date = date[1]} IN
         IF found = {} THEN <<>> ELSE <<(CHOOSE r \in found : TRUE).amount_tonnes>>

\* l.amount_tonnes - p.prev_amount, NULL when the joined amount is NULL
Minus(amount, prev) == IF prev = <<>> THEN <<>> ELSE <<amount - prev[1]>>

\* COALESCE(x, default): the result column always holds a number
Coalesce(x, default) == IF x = <<>> THEN <<default>> ELSE x

\* GoldReserveStore.get_latest_with_changes
get_latest_with_changes(rows, enabled) ==
    IF ~enabled THEN {}
    ELSE LET prev_1m_date == SecondNewestDate(rows)
             prev_1y_date == IF rows = {} THEN <<>>
                             ELSE <<DateSubYear(MaxDate({r.report_date : r \in rows}))>>
         IN  {[code |-> l.country_code, amount |-> l.amount_tonnes,
               date |-> l.report_date, source |-> l.data_source,
               change_1m |-> Coalesce(Minus(l.amount_tonnes,
                                 AmountAt(rows, l.country_code, prev_1m_date)), 0),
               change_1y |-> Coalesce(Minus(l.amount_tonnes,
                                 AmountAt(rows, l.country_code, prev_1y_date)), 0)]
              : l \in LatestRows(rows)}

\* SELECT g.amount_tonnes ... WHERE g.country_code = l.country_code AND
\* g.report_date < l.report_date ORDER BY g.report_date DESC LIMIT 1 OFFSET n
RECURSIVE AmountBefore(_, _, _, _)
AmountBefore(rows, code, date, offset) ==
    LET older == {r \in RowsOf(rows, code) : MonthsOf(r.report_date) < MonthsOf(date)} IN
    IF older = {} THEN <<>>
    ELSE LET newest == CHOOSE r \in older :
                 \A x \in older : MonthsOf(x.report_date) <= MonthsOf(r.report_date)
         IN  IF offset = 0 THEN <<newest.amount_tonnes>>
             ELSE AmountBefore(rows, code, newest.report_date, offset - 1)

\* GoldReserveStore.get_latest_with_multi_period_changes
get_latest_with_multi_period_changes(rows, enabled) ==
    IF ~enabled THEN {}
    ELSE {[code |-> l.country_code, amount |-> l.amount_tonnes,
           date |-> l.report_date, source |-> l.data_source,
           change_1m |-> Coalesce(Minus(l.amount_tonnes,
                AmountBefore(rows, l.country_code, l.report_date, 0)), 0),
           change_3m |-> Coalesce(Minus(l.amount_tonnes,
                AmountBefore(rows, l.country_code, l.report_date, 2)), 0),
           change_6m |-> Coalesce(Minus(l.amount_tonnes,
                AmountBefore(rows, l.country_code, l.report_date, 5)), 0),
           change_12m |-> Coalesce(Minus(l.amount_tonnes,
                AmountBefore(rows, l.country_code, l.report_date, 11)), 0)]
          : l \in LatestRows(rows)}

NoQuery == [op |-> "none", rows |-> {}]

-----------------------------------------------------------------------------
(* GoldService.  The twenty tracked countries are abridged to two; a fetched *)
(* row is the dict the service builds, its date the month "%Y-%m" as         *)
(* <<year, month>>.  The priority lists modelled name neither "central_bank" *)
(* nor a source that fetches single countries.                               *)

TOP_20_COUNTRIES == <<"USA", "CHN">>

DefaultGoldPriority == <<"fred", "imf">>
AltGoldPriority == <<"wgc", "imf">>
GoldPriorities == {DefaultGoldPriority, AltGoldPriority}

\* the sources fetch_all_with_auto_update has a fetch for; "tradingeconomics"
\* continues and any other name matches no branch: neither calls a provider
GoldProviders == {"wgc", "imf"}

\* a Monday, like the start of the clock
StartDate == <<2025, 3, 3>>

\* the calendar advances by whole weeks, so the weekday of `now` stays
DaySteps == {28}

DaysInMonth(year, month) ==
    IF month = 2 THEN (IF year % 4 = 0 /\ (year % 100 # 0 \/ year % 400 = 0) THEN 29 ELSE 28)
    ELSE IF month \in {4, 6, 9, 11} THEN 30 ELSE 31

\* date + n days, n at most one month
AddDays(date, n) ==
    LET dim == DaysInMonth(date[1], date[2]) IN
    IF date[3] + n <= dim THEN <<date[1], date[2], date[3] + n>>
    ELSE IF date[2] = 12 THEN <<date[1] + 1, 1, date[3] + n - dim>>
    ELSE <<date[1], date[2] + 1, date[3] + n - dim>>

\* date comparison d1 >= d2 on <<year, month, day>>
DateGE(d1, d2) ==
    \/ MonthsOf(d1) > MonthsOf(d2)
    \/ MonthsOf(d1) = MonthsOf(d2) /\ d1[3] >= d2[3]

\* datetime.strptime(date, "%Y-%m"): the first day of the month
StrptimeMonth(ym) == <<ym[1], ym[2], 1>>

\* strftime("%Y-%m"): the day is dropped
StrftimeMonth(date) == <<date[1], date[2]>>

\* the month before the month of a date, as a report period
PreviousMonth(date) ==
    IF date[2] = 1 THEN <<date[1] - 1, 12>> ELSE <<date[1], date[2] - 1>>

\* central_bank_schedules: release_day per country, 0 where there is no row
NoSchedules == [c \in {"USA", "CHN"} |-> 0]

\* CentralBankScheduleStore.init_default_schedules
DefaultSchedules == [c \in {"USA", "CHN"} |-> IF c = "USA" THEN 28 ELSE 7]

\* DEFAULT_RESERVES (tonnes, rounded down)
DefaultAmount(code) == IF code = "USA" THEN 8133 ELSE 2279

\* what a scraper reports for a country: the month before the current one
GoldAmount(source, code) ==
    IF code = "USA" THEN 8133 ELSE IF source = "wgc" THEN 2264 ELSE 2279

\* GoldService._fetch_from_wgc / _fetch_from_imf on a successful scrape
GoldSourceData(source, date) ==
    [i \in 1..Len(TOP_20_COUNTRIES) |->
        [code |-> TOP_20_COUNTRIES[i],
         amount |-> GoldAmount(source, TOP_20_COUNTRIES[i]),
         date |-> PreviousMonth(date),
         source |-> IF source = "wgc" THEN "WGC" ELSE "IMF"]]

\* GoldService._get_default_data
get_default_data(date) ==
    [i \in 1..Len(TOP_20_COUNTRIES) |->
        [code |-> TOP_20_COUNTRIES[i],
         amount |-> DefaultAmount(TOP_20_COUNTRIES[i]),
         date |-> StrftimeMonth(date),
         source |-> "DEFAULT"]]

\* GoldService._should_update; release_day 0: no schedule for the country
should_update(country_code, release_day, date, enabled, local) ==
    IF release_day = 0 THEN TRUE
    ELSE IF date[3] >= release_day /\ ~enabled
    THEN ~\E i \in 1..Len(local) :
             /\ local[i].code = country_code
             /\ DateGE(StrptimeMonth(local[i].date),
                       <<date[1], date[2], release_day>>)
    ELSE FALSE

\* a freshness check that also applies under force
need_fetch_checked(force, scheds, date, enabled, local) ==
    \E i \in 1..Len(TOP_20_COUNTRIES) :
        should_update(TOP_20_COUNTRIES[i], scheds[TOP_20_COUNTRIES[i]],
                      date, enabled, local)

\* need_fetch of fetch_all_with_auto_update
need_fetch(force, scheds, date, enabled, local) ==
    \/ force
    \/ \E i \in 1..Len(TOP_20_COUNTRIES) :
          should_update(TOP_20_COUNTRIES[i], scheds[TOP_20_COUNTRIES[i]],
                        date, enabled, local)

\* the scrapers' outcomes during one call
GoldOutcomes == [GoldProviders -> {"ok", "none", "raise"}]

\* for source in config.source.gold_priority, from position i on
RECURSIVE GoldWalk(_, _, _, _, _)
GoldWalk(prio, fallback, i, o, date) ==
    IF i > Len(prio) THEN [data |-> <<>>, raised |-> FALSE, invoked |-> <<>>]
    ELSE LET source == prio[i]
             rest == GoldWalk(prio, fallback, i + 1, o, date)
         IN  IF source \notin GoldProviders THEN rest
             ELSE IF o[source] = "ok"
             THEN [data |-> GoldSourceData(source, date), raised |-> FALSE,
                   invoked |-> <<source>>]
             ELSE IF o[source] = "raise" /\ ~fallback
             THEN [data |-> <<>>, raised |-> TRUE, invoked |-> <<source>>]
             ELSE [rest EXCEPT !.invoked = <<source>> \o @]

\* GoldReserve(...) built from a fetched dict
ReserveOfDict(d, t) ==
    [country_code |-> d.code,
     report_date |-> StrftimeMonth(StrptimeMonth(d.date)),
     amount_tonnes |-> d.amount,
     data_source |-> d.source,
     fetch_time |-> t]

\* Database.init: the pool and the enabled flag afterwards
database_init(pool, enabled, outcome) ==
    IF pool THEN [pool |-> pool, enabled |-> enabled, returned |-> TRUE]
    ELSE [pool |-> outcome # "no_pool", enabled |-> outcome = "ok",
          returned |-> outcome = "ok"]

\* what one call finds outside the service: the outcome of the lazy
\* Database.init, whether the schedule query, the save and the read succeed,
\* and the scrapers' outcomes; at most one of the database calls fails
GoldEnvs ==
    {e \in [init : {"ok", "no_pool"}, schedules_ok : BOOLEAN, save_ok : BOOLEAN,
            read_ok : BOOLEAN, sources : GoldOutcomes] :
        Cardinality({f \in {"schedules", "save", "read"} :
            \/ f = "schedules" /\ ~e.schedules_ok
            \/ f = "save" /\ ~e.save_ok
            \/ f = "read" /\ ~e.read_ok}) <= 1}

\* the dict the service builds from a row of get_latest_with_changes
ResultOfRow(r) ==
    [code |-> r.code, amount |-> r.amount, date |-> r.date, source |-> r.source,
     change_1m |-> r.change_1m, change_1y |-> r.change_1y]

\* GoldService.fetch_all_with_auto_update
fetch_all_with_auto_update(rows, pool, enabled, scheds, local, prio, fallback, force, env, date, t) ==
    LET called == ~is_enabled(pool, enabled)
        db == IF called THEN database_init(pool, enabled, env.init)
              ELSE [pool |-> pool, enabled |-> enabled, returned |-> TRUE]
        init == IF called THEN <<db.returned>> ELSE <<>>
        on == is_enabled(db.pool, db.enabled)
        found == IF on /\ env.schedules_ok THEN scheds ELSE NoSchedules
        need == need_fetch(force, found, date, on, local)
        walk == IF need THEN GoldWalk(prio, fallback, 1, env.sources, date)
                ELSE [data |-> <<>>, raised |-> FALSE, invoked |-> <<>>]
        saved == IF need /\ walk.data # <<>> /\ on
                 THEN database_save_batch(rows, on,
                          [i \in 1..Len(walk.data) |-> ReserveOfDict(walk.data[i], t)],
                          env.save_ok).table
                 ELSE rows
        kept == IF ~need \/ on THEN local
                ELSE IF walk.data # <<>> THEN walk.data
                ELSE get_default_data(date)
        read == IF on /\ env.read_ok
                THEN {ResultOfRow(r) : r \in get_latest_with_changes(saved, on)}
                ELSE Range(kept)
    IN  IF walk.raised
        THEN [table |-> rows, pool |-> db.pool, enabled |-> db.enabled,
              init |-> init,
              local |-> local, results |-> {}, raised |-> TRUE,
              need |-> need, invoked |-> walk.invoked, fetched |-> {}]
        ELSE [table |-> saved, pool |-> db.pool, enabled |-> db.enabled,
              init |-> init,
              local |-> kept,
              results |-> IF read = {} THEN Range(get_default_data(date)) ELSE read,
              raised |-> FALSE, need |-> need, invoked |-> walk.invoked,
              fetched |-> {walk.data[i].code : i \in 1..Len(walk.data)}]

\* lastGold: the arguments, the table before and after the call, the date,
\* whether the database was enabled when the freshness check ran, what the
\* check decided, the scrapers called in order, the countries fetched, the
\* result
NoGold == [op |-> "none", force |-> FALSE, before |-> {}, after |-> {},
           date |-> <<>>,
           enabled |-> FALSE, need |-> FALSE, invoked |-> <<>>,
           fetched |-> {}, results |-> {}, raised |-> FALSE]

-----------------------------------------------------------------------------
(* GPRService: services/gpr_service.py.  gpr_history.json maps a month key  *)
(* "YYYY-MM" to the index value.  A key is the sequence of its character    *)
(* codes, so that keys compare as Python compares strings; a value is the   *)
(* index times 100.  The result keeps "latest" and, per horizon, the        *)
(* reference value and the change (<<>> for None); change_pct and the risk  *)
(* level are derived from these and left out.                               *)

Dash == 45
Digit(d) == 48 + d

\* f"{y}-{m:02d}" for a four-digit year
FormatMonth(y, m) ==
    <<Digit(y \div 1000), Digit((y \div 100) % 10), Digit((y \div 10) % 10),
      Digit(y % 10), Dash, Digit(m \div 10), Digit(m % 10)>>

\* int(text) for a text of digits
RECURSIVE IntOf(_)
IntOf(text) ==
    IF text = <<>> THEN 0
    ELSE 10 * IntOf(SubSeq(text, 1, Len(text) - 1)) + (text[Len(text)] - 48)

\* map(int, key.split("-")) for a key with one dash
SplitMonth(key) ==
    LET i == CHOOSE j \in 1..Len(key) : key[j] = Dash
    IN  <<IntOf(SubSeq(key, 1, i - 1)), IntOf(SubSeq(key, i + 1, Len(key)))>>

\* a <= b for two strings
RECURSIVE StrLE(_, _)
StrLE(a, b) ==
    IF a = <<>> THEN TRUE
    ELSE IF b = <<>> THEN FALSE
    ELSE IF a[1] # b[1] THEN a[1] < b[1]
    ELSE StrLE(Tail(a), Tail(b))

\* sorted(keys, reverse=True)
RECURSIVE SortedReverse(_)
SortedReverse(keys) ==
    IF keys = {} THEN <<>>
    ELSE LET top == CHOOSE k \in keys : \A x \in keys : StrLE(x, k)
         IN  <<top>> \o SortedReverse(keys \ {top})

\* the months of the file here, and the index value of each
GprMonths ==
    {<<2026, 3>>, <<2026, 1>>, <<2025, 12>>, <<2025, 11>>, <<2025, 6>>,
     <<2024, 10>>, <<2016, 1>>, <<2015, 1>>}

GprValue(ym) ==
    CASE ym = <<2026, 3>> -> 14010
      [] ym = <<2026, 1>> -> 13524
      [] ym = <<2025, 12>> -> 12145
      [] ym = <<2025, 11>> -> 11830
      [] ym = <<2025, 6>> -> 10720
      [] ym = <<2024, 10>> -> 11540
      [] ym = <<2016, 1>> -> 9245
      [] OTHER -> 8830

\* load_data(): the contents gpr_history.json can have
GprData(months) ==
    [key \in {FormatMonth(ym[1], ym[2]) : ym \in months} |->
        GprValue(SplitMonth(key))]

GprFiles == {GprData(months) : months \in SUBSET GprMonths}

\* the month that lies `months` months before <<ly, lm>>
RECURSIVE TargetMonth(_, _)
TargetMonth(target_y, target_m) ==
    IF target_m <= 0 THEN TargetMonth(target_y - 1, target_m + 12)
    ELSE <<target_y, target_m>>

\* the first date of dates, from position i on, that is <= target_date
RECURSIVE ClosestBefore(_, _, _, _)
ClosestBefore(data, dates, target_date, i) ==
    IF i > Len(dates) THEN <<>>
    ELSE IF StrLE(dates[i], target_date) THEN <<data[dates[i]]>>
    ELSE ClosestBefore(data, dates, target_date, i + 1)

\* get_val_at_offset without the search for the closest earlier date
get_val_at_offset_exact(data, dates, latest_date, months) ==
    LET l == SplitMonth(latest_date)
        t == TargetMonth(l[1], l[2] - months)
        target_date == FormatMonth(t[1], t[2])
    IN  IF target_date \in DOMAIN data THEN <<data[target_date]>> ELSE <<>>

\* get_val_at_offset(months), the closure of get_gpr_analysis
get_val_at_offset(data, dates, latest_date, months) ==
    LET l == SplitMonth(latest_date)
        t == TargetMonth(l[1], l[2] - months)
        target_date == FormatMonth(t[1], t[2])
    IN  IF target_date \in DOMAIN data THEN <<data[target_date]>>
        ELSE ClosestBefore(data, dates, target_date, 1)

\* the horizons of get_gpr_analysis, label -> months
Horizons ==
    [label \in {"1M", "3M", "6M", "1Y", "5Y", "10Y"} |->
        CASE label = "1M" -> 1 [] label = "3M" -> 3 [] label = "6M" -> 6
          [] label = "1Y" -> 12 [] label = "5Y" -> 60 [] OTHER -> 120]

\* GPRService.get_gpr_analysis(); the empty record for {}
get_gpr_analysis(data) ==
    LET dates == SortedReverse(DOMAIN data) IN
    IF dates = <<>> THEN [latest |-> <<>>, horizons |-> <<>>]
    ELSE LET latest_date == dates[1]
             latest_val == data[latest_date]
         IN  [latest |-> <<[date |-> latest_date, value |-> latest_val]>>,
              horizons |->
                 [label \in DOMAIN Horizons |->
                     LET prev_val == get_val_at_offset(data, dates, latest_date,
                                                       Horizons[label])
                     IN  IF prev_val # <<>>
                         THEN <<[value |-> prev_val[1],
                                 change |-> latest_val - prev_val[1]]>>
                         ELSE <<>>]]

-----------------------------------------------------------------------------
(* RedisCache and HybridCache.  The server's answer to one command is an    *)
(* outcome: "ok", "connect_fails" (no connection can be made) or "error"    *)
(* (the command raises).                                                    *)

RedisOutcomes == {"ok", "connect_fails", "error"}

\* json.dumps / json.loads of the cached data
json_dumps(data) == <<"json", data>>
json_loads(text) == text[2]

\* RedisCache._connect: whether the cache is connected afterwards
redis_connect(connected, outcome) == connected \/ outcome # "connect_fails"

\* what the server returns for GET key at time t: the value of an unexpired key
RedisGet(store, key, t) ==
    IF key \in DOMAIN store /\ store[key].expire_at > t
    THEN <<store[key].value>> ELSE <<>>

\* SETEX key ttl value
RedisSetex(store, key, ttl, value, t) ==
    [k \in DOMAIN store \cup {key} |->
        IF k = key THEN [value |-> value, expire_at |-> t + ttl] ELSE store[k]]

\* a RedisCache.async_get without the try/except around the command
redis_async_get_unguarded(store, connected, key, outcome, t) ==
    IF ~redis_connect(connected, outcome)
    THEN [value |-> <<>>, connected |-> FALSE, raised |-> FALSE]
    ELSE IF outcome = "error"
    THEN [value |-> <<>>, connected |-> TRUE, raised |-> TRUE]
    ELSE LET data == RedisGet(store, key, t) IN
         [value |-> IF data # <<>> THEN <<json_loads(data[1])>> ELSE <<>>,
          connected |-> TRUE, raised |-> FALSE]

\* RedisCache.async_get
redis_async_get(store, connected, key, outcome, t) ==
    IF ~redis_connect(connected, outcome)
    THEN [value |-> <<>>, connected |-> FALSE, raised |-> FALSE]
    ELSE IF outcome = "error"
    THEN [value |-> <<>>, connected |-> FALSE, raised |-> FALSE]
    ELSE LET data == RedisGet(store, key, t) IN
         [value |-> IF data # <<>> THEN <<json_loads(data[1])>> ELSE <<>>,
          connected |-> TRUE, raised |-> FALSE]

\* RedisCache.async_set
redis_async_set(store, connected, key, data, ttl, outcome, t) ==
    IF ~redis_connect(connected, outcome)
    THEN [store |-> store, connected |-> FALSE, raised |-> FALSE]
    ELSE IF outcome = "error"
    THEN [store |-> store, connected |-> FALSE, raised |-> FALSE]
    ELSE [store |-> RedisSetex(store, key, ttl, json_dumps(data), t),
          connected |-> TRUE, raised |-> FALSE]

\* HybridCache.async_get
hybrid_async_get(c, store, use, failed, connected, key, outcome, t) ==
    IF use /\ ~failed
    THEN LET r == redis_async_get(store, connected, key, outcome, t) IN
         IF r.raised
         THEN [cache |-> c, value |-> <<>>, raised |-> TRUE, failed |-> failed,
               connected |-> r.connected, asked |-> TRUE]
         ELSE IF r.value # <<>>
         THEN [cache |-> c, value |-> r.value, raised |-> FALSE,
               failed |-> failed, connected |-> r.connected, asked |-> TRUE]
         ELSE [cache |-> CacheAfterGet(c, key, t), value |-> CacheGet(c, key, t),
               raised |-> FALSE, failed |-> TRUE, connected |-> r.connected,
               asked |-> TRUE]
    ELSE [cache |-> CacheAfterGet(c, key, t), value |-> CacheGet(c, key, t),
          raised |-> FALSE, failed |-> failed, connected |-> connected,
          asked |-> FALSE]

\* HybridCache.async_set
hybrid_async_set(c, store, use, connected, key, data, ttl, outcome, t) ==
    LET c1 == CacheSet(c, key, data, ttl, t) IN
    IF use
    THEN LET r == redis_async_set(store, connected, key, data, ttl, outcome, t) IN
         [cache |-> c1, store |-> r.store, raised |-> r.raised,
          connected |-> r.connected, asked |-> TRUE]
    ELSE [cache |-> c1, store |-> store, raised |-> FALSE,
          connected |-> connected, asked |-> FALSE]

\* lastCache: the call and its arguments, the server's outcome, whether Redis
\* was asked, what the call returned and whether it raised
NoCacheCall == [op |-> "none", key |-> <<>>, data |-> <<>>, ttl |-> 0,
                outcome |-> "none", asked |-> FALSE, value |-> <<>>,
                raised |-> FALSE]

-----------------------------------------------------------------------------
(* HttpClient.fetch.  A client is a coroutine that calls fetch; its call is  *)
(* "waiting" for the semaphore, "inflight" (a request of _fetch_internal is  *)
(* on the wire), "sleeping" (the retry delay, the slot still held) or over   *)
(* ("idle").                                                                 *)

Clients == {"c1", "c2", "c3"}

DefaultMaxConcurrent == 10
HttpLimits == {1, 2}

max_retries == 3

\* how one attempt of _fetch_internal ends: a response is returned, the
\* request times out, aiohttp raises a ClientError, another Exception is
\* raised, or the task is cancelled (the exception leaves fetch)
AttemptOutcomes == {"response", "timeout", "client_error", "exception", "cancelled"}

\* if self._semaphore is None: self._semaphore = asyncio.Semaphore(limit)
SemaphoreOf(sem, limit) == IF sem = <<>> THEN <<limit>> ELSE sem

\* a loop that goes on to the next attempt after any failure but cancellation
RetriesAnyFailure(attempt, outcome) ==
    outcome \in {"timeout", "client_error", "exception"} /\ attempt < max_retries - 1

\* whether the attempt is followed by another one
Retries(attempt, outcome) ==
    outcome \in {"timeout", "client_error"} /\ attempt < max_retries - 1

\* an exit that keeps the slot when an unexpected exception ended the call
SemaphoreAfterExitLeaky(sem, outcome) ==
    IF outcome = "exception" THEN sem ELSE <<sem[1] + 1>>

\* async with self._semaphore: __aexit__ releases however the body ended
SemaphoreAfterExit(sem, outcome) == <<sem[1] + 1>>

\* config.http.retry_delay
retry_delay == 1

\* what a response carries: a JSON document or something else
ResponseBodies == {"json", "not_json"}

\* the outcomes of the attempts of one call, one per pass of the loop, and
\* the body of a response
FetchEnvs ==
    [outcomes : [1..max_retries -> AttemptOutcomes], body : ResponseBodies]

\* what the body of the async with session.get(...) returns
ResponseValue(text_mode, binary_mode, body) ==
    IF binary_mode THEN "bytes"
    ELSE IF text_mode THEN "text"
    ELSE IF body = "json" THEN "json" ELSE "text"

\* HttpClient._fetch_internal from the pass `attempt` of its loop on; slept
\* is the delays it has slept so far.  returned is <<>> for None.
RECURSIVE fetch_internal(_, _, _, _, _)
fetch_internal(text_mode, binary_mode, env, attempt, slept) ==
    IF attempt >= max_retries
    THEN [attempts |-> attempt, slept |-> slept, returned |-> <<>>,
          raised |-> FALSE]
    ELSE LET outcome == env.outcomes[attempt + 1] IN
         IF outcome = "response"
         THEN [attempts |-> attempt + 1, slept |-> slept,
               returned |-> <<ResponseValue(text_mode, binary_mode, env.body)>>,
               raised |-> FALSE]
         ELSE IF outcome = "cancelled"
         THEN [attempts |-> attempt + 1, slept |-> slept, returned |-> <<>>,
               raised |-> TRUE]
         ELSE IF Retries(attempt, outcome)
         THEN fetch_internal(text_mode, binary_mode, env, attempt + 1,
                             Append(slept, retry_delay * (attempt + 1)))
         ELSE [attempts |-> attempt + 1, slept |-> slept, returned |-> <<>>,
               raised |-> FALSE]

-----------------------------------------------------------------------------
(* Actions *)

FetchSingle(asset, o) ==
    /\ calls < MaxCalls
    /\ LET r == fetch_single(fileCache, quote_priority, fallback_enabled,
                             asset, o, now)
       IN  /\ fileCache' = r.cache
           /\ last' = [op |-> "fetch_single", req |-> <<QuoteKey(asset)>>,
                       hits |-> IF r.hit THEN {QuoteKey(asset)} ELSE {},
                       values |-> r.value, raised |-> r.raised,
                       invoked |-> <<r.invoked>>, failed |-> <<r.failed>>,
                       evicted |-> DOMAIN fileCache \ DOMAIN r.cache]
    /\ calls' = calls + 1
    /\ UNCHANGED <<now, ticks, quote_priority, forex_priority, fallback_enabled>>
    /\ UNCHANGED storeVars
    /\ UNCHANGED extVars

FetchAll(assets, env) ==
    /\ calls < MaxCalls
    /\ LET r == fetch_all(fileCache, quote_priority, fallback_enabled,
                          assets, env, now)
       IN  /\ fileCache' = r.cache
           /\ last' = [op |-> "fetch_all",
                       req |-> [i \in 1..Len(assets) |-> QuoteKey(assets[i])],
                       hits |-> {QuoteKey(a) : a \in r.hits},
                       values |-> r.values, raised |-> r.raised,
                       invoked |-> r.invoked, failed |-> r.failed,
                       evicted |-> DOMAIN fileCache \ DOMAIN r.cache]
    /\ calls' = calls + 1
    /\ UNCHANGED <<now, ticks, quote_priority, forex_priority, fallback_enabled>>
    /\ UNCHANGED storeVars
    /\ UNCHANGED extVars

GetRate(args, o) ==
    /\ calls < MaxCalls
    /\ LET r == get_rate(fileCache, forex_priority, fallback_enabled,
                         args[1], args[2], o, now)
           key == ForexKey(Upper(args[1]), Upper(args[2]))
       IN  /\ fileCache' = r.cache
           /\ last' = [op |-> "get_rate", req |-> <<key>>,
                       hits |-> IF r.hit THEN {key} ELSE {},
                       values |-> r.value, raised |-> r.raised,
                       invoked |-> <<r.invoked>>, failed |-> <<r.failed>>,
                       evicted |-> DOMAIN fileCache \ DOMAIN r.cache]
    /\ calls' = calls + 1
    /\ UNCHANGED <<now, ticks, quote_priority, forex_priority, fallback_enabled>>
    /\ UNCHANGED storeVars
    /\ UNCHANGED extVars

\* get_all_rates(base_currency) from start to return; on a hit of the
\* all-rates entry no pair is looked up
GetAllRates(base, env) ==
    /\ calls < MaxCalls
    /\ \E r \in {get_all_rates(fileCache, forex_priority, fallback_enabled,
                                base, env, now)} :
           /\ fileCache' = r.cache
           /\ last' = [op |-> "get_all_rates",
                       req |-> [i \in 1..Len(r.walks) |-> r.walks[i].key],
                       hits |-> IF r.hit THEN {ForexAllKey(Upper(base))}
                                ELSE {r.walks[i].key : i \in
                                         {j \in 1..Len(r.walks) : r.walks[j].hit}},
                       values |-> r.values, raised |-> r.raised,
                       invoked |-> [i \in 1..Len(r.walks) |-> r.walks[i].invoked],
                       failed |-> [i \in 1..Len(r.walks) |-> r.walks[i].failed],
                       evicted |-> DOMAIN fileCache \ DOMAIN r.cache]
    /\ calls' = calls + 1
    /\ UNCHANGED <<now, ticks, quote_priority, forex_priority, fallback_enabled>>
    /\ UNCHANGED storeVars
    /\ UNCHANGED extVars

\* a caller enters get_rate: the cache lookup; a hit returns at once, a miss
\* leaves the call at the await of its first provider
GetRateBegin(p, args) ==
    /\ calls < MaxCalls
    /\ pendingRate[p] = <<>>
    /\ LET from == Upper(args[1])
           to == Upper(args[2])
           key == ForexKey(from, to)
           cached == CacheGet(fileCache, key, now)
       IN  /\ fileCache' = CacheAfterGet(fileCache, key, now)
           /\ IF cached # <<>>
              THEN /\ last' = [op |-> "get_rate", req |-> <<key>>, hits |-> {key},
                               values |-> <<RateFromDict(cached[1])>>,
                               raised |-> FALSE, invoked |-> <<(<<>>)>>,
                               failed |-> <<(<<>>)>>,
                               evicted |-> DOMAIN fileCache \ DOMAIN fileCache']
                   /\ UNCHANGED pendingRate
              ELSE /\ pendingRate' = [pendingRate EXCEPT
                                         ![p] = <<[from |-> from, to |-> to]>>]
                   /\ UNCHANGED last
    /\ calls' = calls + 1
    /\ UNCHANGED <<now, ticks, quote_priority, forex_priority, fallback_enabled>>
    /\ UNCHANGED storeVars
    /\ UNCHANGED goldVars
    /\ UNCHANGED redisVars
    /\ UNCHANGED httpVars
    /\ UNCHANGED setVars
    /\ UNCHANGED dbVars

\* the providers of a pending get_rate have answered: the rest of the call
GetRateFinish(p, o) ==
    /\ pendingRate[p] # <<>>
    /\ LET from == pendingRate[p][1].from
           to == pendingRate[p][1].to
           r == get_rate_fetch(fileCache, forex_priority, fallback_enabled,
                               from, to, o, now)
       IN  /\ fileCache' = r.cache
           /\ last' = [op |-> "get_rate", req |-> <<ForexKey(from, to)>>,
                       hits |-> {}, values |-> r.value, raised |-> r.raised,
                       invoked |-> <<r.invoked>>, failed |-> <<r.failed>>,
                       evicted |-> DOMAIN fileCache \ DOMAIN r.cache]
    /\ pendingRate' = [pendingRate EXCEPT ![p] = <<>>]
    /\ UNCHANGED <<now, ticks, calls, quote_priority, forex_priority,
                   fallback_enabled>>
    /\ UNCHANGED storeVars
    /\ UNCHANGED goldVars
    /\ UNCHANGED redisVars
    /\ UNCHANGED httpVars
    /\ UNCHANGED setVars
    /\ UNCHANGED dbVars

\* the clock advances between calls
Tick(d) ==
    /\ ticks < MaxTicks
    /\ now' = now + d
    /\ ticks' = ticks + 1
    /\ UNCHANGED <<calls, fileCache, quote_priority, forex_priority,
                   fallback_enabled, last>>
    /\ UNCHANGED storeVars
    /\ UNCHANGED extVars

\* is_trading_hours(market, check_time) is evaluated under the settings th;
\* the call reads the settings and nothing else, and changes nothing
IsTradingHours(th, market, check_time) ==
    /\ last' = [op |-> "is_trading_hours", th |-> th, market |-> market,
                check_time |-> check_time, raised |-> FALSE,
                result |-> is_trading_hours_with(th, market, check_time)]
    /\ UNCHANGED <<now, ticks, calls, fileCache, quote_priority,
                   forex_priority, fallback_enabled>>
    /\ UNCHANGED storeVars
    /\ UNCHANGED extVars

\* gpr_service.get_gpr_analysis() while gpr_history.json holds data; the
\* call reads the file and changes nothing
GetGprAnalysis(data) ==
    /\ last' = [op |-> "get_gpr_analysis", data |-> data, raised |-> FALSE,
                result |-> get_gpr_analysis(data)]
    /\ UNCHANGED <<now, ticks, calls, fileCache, quote_priority,
                   forex_priority, fallback_enabled>>
    /\ UNCHANGED storeVars
    /\ UNCHANGED extVars

\* one call of http_client.fetch(url, text_mode=..., binary_mode=...) from
\* the first request to its return, with a slot of the semaphore free; env
\* is how each request ends
Fetch(text_mode, binary_mode, env) ==
    /\ \E r \in {fetch_internal(text_mode, binary_mode, env, 0, <<>>)} :
          last' = [op |-> "fetch", text_mode |-> text_mode,
                   binary_mode |-> binary_mode,
                   outcomes |-> SubSeq(env.outcomes, 1, r.attempts),
                   body |-> env.body, attempts |-> r.attempts,
                   slept |-> r.slept, returned |-> r.returned,
                   raised |-> r.raised]
    /\ UNCHANGED <<now, ticks, calls, fileCache, quote_priority,
                   forex_priority, fallback_enabled>>
    /\ UNCHANGED storeVars
    /\ UNCHANGED extVars

\* cache.get(key), cache.set(key, data, ttl), cache.delete(key), cache.clear()
CacheGetOp(key) ==
    /\ calls < MaxCacheOps
    /\ fileCache' = CacheAfterGet(fileCache, key, now)
    /\ LET got == CacheGet(fileCache, key, now)
       IN  last' = [NoCall EXCEPT !.op = "cache_get", !.req = <<key>>,
                                  !.hits = IF got # <<>> THEN {key} ELSE {},
                                  !.values = got,
                                  !.evicted = DOMAIN fileCache \
                                      DOMAIN CacheAfterGet(fileCache, key, now)]
    /\ calls' = calls + 1
    /\ UNCHANGED <<now, ticks, quote_priority, forex_priority, fallback_enabled>>
    /\ UNCHANGED storeVars
    /\ UNCHANGED extVars

CacheSetOp(key, data, ttl) ==
    /\ calls < MaxCacheOps
    /\ fileCache' = CacheSet(fileCache, key, data, ttl, now)
    /\ last' = [NoCall EXCEPT !.op = "cache_set", !.req = <<key>>]
    /\ calls' = calls + 1
    /\ UNCHANGED <<now, ticks, quote_priority, forex_priority, fallback_enabled>>
    /\ UNCHANGED storeVars
    /\ UNCHANGED extVars

CacheDeleteOp(key) ==
    /\ calls < MaxCacheOps
    /\ fileCache' = CacheDelete(fileCache, key)
    /\ last' = [NoCall EXCEPT !.op = "cache_delete", !.req = <<key>>]
    /\ calls' = calls + 1
    /\ UNCHANGED <<now, ticks, quote_priority, forex_priority, fallback_enabled>>
    /\ UNCHANGED storeVars
    /\ UNCHANGED extVars

CacheClearOp ==
    /\ calls < MaxCacheOps
    /\ fileCache' = CacheClear
    /\ last' = [NoCall EXCEPT !.op = "cache_clear"]
    /\ calls' = calls + 1
    /\ UNCHANGED <<now, ticks, quote_priority, forex_priority, fallback_enabled>>
    /\ UNCHANGED storeVars
    /\ UNCHANGED extVars

\* Database.init: the pool is created and the connection test passes
\* ("ok"), the pool cannot be created ("no_pool"), or the pool is created
\* and the connection test fails ("test_fails")
DatabaseInit(outcome) ==
    /\ \E r \in {database_init(db_pool, db_enabled, outcome)} :
          /\ db_pool' = r.pool
          /\ db_enabled' = r.enabled
          /\ lastInit' = <<r.returned>>
    /\ UNCHANGED <<table, pending, lastSave>>
    /\ UNCHANGED fetchVars
    /\ UNCHANGED <<goldVars, redisVars, flightVars, httpVars, setVars>>

\* Database.close
DatabaseClose ==
    /\ IF db_pool
       THEN db_pool' = FALSE /\ db_enabled' = FALSE
       ELSE UNCHANGED <<db_pool, db_enabled>>
    /\ UNCHANGED <<table, pending, lastSave>>
    /\ UNCHANGED fetchVars
    /\ UNCHANGED extVars

\* a writer has fetched data and builds its GoldReserve list, stamped with
\* the current time; the service does so only when the database is enabled
PrepareReserves(writer, data) ==
    /\ calls < MaxCalls
    /\ pending[writer] = <<>>
    /\ writer = "service" => is_enabled(db_pool, db_enabled)
    /\ pending' = [pending EXCEPT ![writer] = Stamp(data, now)]
    /\ calls' = calls + 1
    /\ UNCHANGED <<table, db_pool, db_enabled, lastSave>>
    /\ UNCHANGED <<now, ticks, fileCache, quote_priority, forex_priority,
                   fallback_enabled, last>>
    /\ UNCHANGED extVars

\* the writer's await GoldReserveStore.save_batch(reserves) completes
SaveReserves(writer, ok) ==
    /\ pending[writer] # <<>>
    /\ LET enabled == is_enabled(db_pool, db_enabled)
           r == IF writer = "service"
                THEN database_save_batch(table, enabled, pending[writer], ok)
                ELSE save_batch(table, enabled, pending[writer], ok)
       IN  /\ table' = r.table
           /\ lastSave' = [op |-> "save_batch", by |-> writer,
                           batch |-> pending[writer], count |-> r.count,
                           raised |-> r.raised,
                           replaced |-> {x \in table :
                               \E i \in 1..Len(pending[writer]) :
                                   ReserveKey(pending[writer][i]) = ReserveKey(x)}]
    /\ pending' = [pending EXCEPT ![writer] = <<>>]
    /\ UNCHANGED <<db_pool, db_enabled>>
    /\ UNCHANGED fetchVars
    /\ UNCHANGED extVars

\* await GoldReserveStore.get_latest_with_changes()
GetLatestWithChanges ==
    /\ lastQuery' = [op |-> "get_latest_with_changes",
                     rows |-> get_latest_with_changes(table,
                                  is_enabled(db_pool, db_enabled))]
    /\ UNCHANGED <<today, days, schedules, local_data, gold_priority, lastGold>>
    /\ UNCHANGED redisVars
    /\ UNCHANGED flightVars
    /\ UNCHANGED httpVars
    /\ UNCHANGED fetchVars
    /\ UNCHANGED storeVars
    /\ UNCHANGED setVars
    /\ UNCHANGED dbVars

\* await GoldReserveStore.get_latest_with_multi_period_changes()
GetLatestWithMultiPeriodChanges ==
    /\ lastQuery' = [op |-> "get_latest_with_multi_period_changes",
                     rows |-> get_latest_with_multi_period_changes(table,
                                  is_enabled(db_pool, db_enabled))]
    /\ UNCHANGED <<today, days, schedules, local_data, gold_priority, lastGold>>
    /\ UNCHANGED redisVars
    /\ UNCHANGED flightVars
    /\ UNCHANGED httpVars
    /\ UNCHANGED fetchVars
    /\ UNCHANGED storeVars
    /\ UNCHANGED setVars
    /\ UNCHANGED dbVars

\* gold_service.fetch_all_with_auto_update(force) from start to return
FetchAllWithAutoUpdate(force, env) ==
    /\ calls < MaxCalls
    /\ \E r \in {fetch_all_with_auto_update(table, db_pool, db_enabled, schedules,
                    local_data, gold_priority, fallback_enabled, force, env,
                    today, now)} :
           /\ table' = r.table
           /\ db_pool' = r.pool
           /\ db_enabled' = r.enabled
           /\ lastInit' = IF r.init # <<>> THEN r.init ELSE lastInit
           /\ local_data' = r.local
           /\ lastGold' = [op |-> "fetch_all_with_auto_update", force |-> force,
                           before |-> table, after |-> r.table,
                           date |-> today,
                           enabled |-> is_enabled(r.pool, r.enabled),
                           need |-> r.need, invoked |-> r.invoked,
                           fetched |-> r.fetched, results |-> r.results,
                           raised |-> r.raised]
    /\ calls' = calls + 1
    /\ UNCHANGED <<pending, lastSave>>
    /\ UNCHANGED <<now, ticks, fileCache, quote_priority, forex_priority,
                   fallback_enabled, last>>
    /\ UNCHANGED <<lastQuery, today, days, schedules, gold_priority>>
    /\ UNCHANGED redisVars
    /\ UNCHANGED flightVars
    /\ UNCHANGED httpVars
    /\ UNCHANGED setVars

\* scripts/migrate.py: CentralBankScheduleStore.init_default_schedules after
\* a successful Database.init
InitDefaultSchedules ==
    /\ is_enabled(db_pool, db_enabled)
    /\ schedules' = DefaultSchedules
    /\ UNCHANGED <<lastQuery, today, days, local_data, gold_priority, lastGold>>
    /\ UNCHANGED redisVars
    /\ UNCHANGED flightVars
    /\ UNCHANGED httpVars
    /\ UNCHANGED fetchVars
    /\ UNCHANGED storeVars
    /\ UNCHANGED setVars
    /\ UNCHANGED dbVars

\* the calendar date advances between two runs
AdvanceDays(n) ==
    /\ days < MaxDays
    /\ today' = AddDays(today, n)
    /\ days' = days + 1
    /\ UNCHANGED <<lastQuery, schedules, local_data, gold_priority, lastGold>>
    /\ UNCHANGED redisVars
    /\ UNCHANGED flightVars
    /\ UNCHANGED httpVars
    /\ UNCHANGED fetchVars
    /\ UNCHANGED storeVars
    /\ UNCHANGED setVars
    /\ UNCHANGED dbVars

\* await cache.async_get(key) on the HybridCache
AsyncGet(key, outcome) ==
    /\ calls < MaxCacheOps
    /\ \E r \in {hybrid_async_get(fileCache, redisStore, use_redis, redis_failed,
                                  redis_connected, key, outcome, now)} :
           /\ fileCache' = r.cache
           /\ redis_failed' = r.failed
           /\ redis_connected' = r.connected
           /\ lastCache' = [op |-> "async_get", key |-> key, data |-> <<>>,
                            ttl |-> 0, outcome |-> outcome, asked |-> r.asked,
                            value |-> r.value, raised |-> r.raised]
    /\ calls' = calls + 1
    /\ UNCHANGED <<use_redis, redisStore>>
    /\ UNCHANGED <<now, ticks, quote_priority, forex_priority, fallback_enabled,
                   last>>
    /\ UNCHANGED storeVars
    /\ UNCHANGED goldVars
    /\ UNCHANGED flightVars
    /\ UNCHANGED httpVars
    /\ UNCHANGED setVars
    /\ UNCHANGED dbVars

\* await cache.async_set(key, data, ttl) on the HybridCache
AsyncSet(key, data, ttl, outcome) ==
    /\ calls < MaxCacheOps
    /\ \E r \in {hybrid_async_set(fileCache, redisStore, use_redis,
                                  redis_connected, key, data, ttl, outcome, now)} :
           /\ fileCache' = r.cache
           /\ redisStore' = r.store
           /\ redis_connected' = r.connected
           /\ lastCache' = [op |-> "async_set", key |-> key, data |-> <<data>>,
                            ttl |-> ttl, outcome |-> outcome, asked |-> r.asked,
                            value |-> <<>>, raised |-> r.raised]
    /\ calls' = calls + 1
    /\ UNCHANGED <<use_redis, redis_failed>>
    /\ UNCHANGED <<now, ticks, quote_priority, forex_priority, fallback_enabled,
                   last>>
    /\ UNCHANGED storeVars
    /\ UNCHANGED goldVars
    /\ UNCHANGED flightVars
    /\ UNCHANGED httpVars
    /\ UNCHANGED setVars
    /\ UNCHANGED dbVars

\* a caller enters HybridCache.async_set: the file cache is written at once;
\* with Redis in use the call is left at its await of RedisCache.async_set
AsyncSetBegin(p, key, data, ttl) ==
    /\ calls < MaxCacheOps
    /\ pendingSet[p] = <<>>
    /\ fileCache' = CacheSet(fileCache, key, data, ttl, now)
    /\ IF use_redis
       THEN /\ pendingSet' = [pendingSet EXCEPT ![p] =
                                 <<[key |-> key, data |-> data, ttl |-> ttl]>>]
            /\ UNCHANGED lastCache
       ELSE /\ lastCache' = [op |-> "async_set", key |-> key, data |-> <<data>>,
                             ttl |-> ttl, outcome |-> "none", asked |-> FALSE,
                             value |-> <<>>, raised |-> FALSE]
            /\ UNCHANGED pendingSet
    /\ calls' = calls + 1
    /\ UNCHANGED <<use_redis, redis_failed, redis_connected, redisStore>>
    /\ UNCHANGED <<now, ticks, quote_priority, forex_priority, fallback_enabled,
                   last>>
    /\ UNCHANGED storeVars
    /\ UNCHANGED goldVars
    /\ UNCHANGED flightVars
    /\ UNCHANGED httpVars
    /\ UNCHANGED dbVars

\* the caller's await of RedisCache.async_set is over: the connection was
\* made if there was none, and the server has executed the SETEX or not
AsyncSetFinish(p, outcome) ==
    /\ pendingSet[p] # <<>>
    /\ \E w \in {pendingSet[p][1]} :
       \E r \in {redis_async_set(redisStore, redis_connected, w.key, w.data,
                                 w.ttl, outcome, now)} :
           /\ redisStore' = r.store
           /\ redis_connected' = r.connected
           /\ lastCache' = [op |-> "async_set", key |-> w.key, data |-> <<w.data>>,
                            ttl |-> w.ttl, outcome |-> outcome, asked |-> TRUE,
                            value |-> <<>>, raised |-> r.raised]
    /\ pendingSet' = [pendingSet EXCEPT ![p] = <<>>]
    /\ UNCHANGED <<use_redis, redis_failed>>
    /\ UNCHANGED fetchVars
    /\ UNCHANGED storeVars
    /\ UNCHANGED goldVars
    /\ UNCHANGED flightVars
    /\ UNCHANGED httpVars
    /\ UNCHANGED dbVars

\* a client calls http_client.fetch: the semaphore is created on first use;
\* the call takes a slot at once if one is free and waits otherwise
HttpFetch(c) ==
    /\ http_state[c] = "idle"
    /\ http_calls[c] < MaxRequests
    /\ LET sem == SemaphoreOf(semaphore, max_concurrent) IN
       IF sem[1] > 0
       THEN /\ semaphore' = <<sem[1] - 1>>
            /\ http_state' = [http_state EXCEPT ![c] = "inflight"]
            /\ http_waited' = [http_waited EXCEPT ![c] = FALSE]
       ELSE /\ semaphore' = sem
            /\ http_state' = [http_state EXCEPT ![c] = "waiting"]
            /\ http_waited' = [http_waited EXCEPT ![c] = TRUE]
    /\ http_attempt' = [http_attempt EXCEPT ![c] = 0]
    /\ http_calls' = [http_calls EXCEPT ![c] = @ + 1]
    /\ UNCHANGED max_concurrent
    /\ UNCHANGED fetchVars
    /\ UNCHANGED storeVars
    /\ UNCHANGED <<goldVars, redisVars, flightVars>>
    /\ UNCHANGED setVars
    /\ UNCHANGED dbVars

\* a waiting call acquires the semaphore after a release
HttpAdmit(c) ==
    /\ http_state[c] = "waiting"
    /\ semaphore[1] > 0
    /\ semaphore' = <<semaphore[1] - 1>>
    /\ http_state' = [http_state EXCEPT ![c] = "inflight"]
    /\ UNCHANGED <<max_concurrent, http_attempt, http_calls, http_waited>>
    /\ UNCHANGED fetchVars
    /\ UNCHANGED storeVars
    /\ UNCHANGED <<goldVars, redisVars, flightVars>>
    /\ UNCHANGED setVars
    /\ UNCHANGED dbVars

\* the request of the current attempt ends: retried after a delay, or the
\* call leaves fetch (data, None, or the exception) and releases its slot
HttpAttemptEnds(c, outcome) ==
    /\ http_state[c] = "inflight"
    /\ IF Retries(http_attempt[c], outcome)
       THEN /\ http_state' = [http_state EXCEPT ![c] = "sleeping"]
            /\ UNCHANGED semaphore
       ELSE /\ http_state' = [http_state EXCEPT ![c] = "idle"]
            /\ semaphore' = SemaphoreAfterExit(semaphore, outcome)
    /\ UNCHANGED <<max_concurrent, http_attempt, http_calls, http_waited>>
    /\ UNCHANGED fetchVars
    /\ UNCHANGED storeVars
    /\ UNCHANGED <<goldVars, redisVars, flightVars>>
    /\ UNCHANGED setVars
    /\ UNCHANGED dbVars

\* asyncio.sleep(retry_delay * (attempt + 1)) is over: the next attempt
HttpRetry(c) ==
    /\ http_state[c] = "sleeping"
    /\ http_state' = [http_state EXCEPT ![c] = "inflight"]
    /\ http_attempt' = [http_attempt EXCEPT ![c] = @ + 1]
    /\ UNCHANGED <<max_concurrent, semaphore, http_calls, http_waited>>
    /\ UNCHANGED fetchVars
    /\ UNCHANGED storeVars
    /\ UNCHANGED <<goldVars, redisVars, flightVars>>
    /\ UNCHANGED setVars
    /\ UNCHANGED dbVars

InitCommon ==
    /\ now \in StartTimes
    /\ ticks = 0
    /\ calls = 0
    /\ fileCache = CacheClear
    /\ \E cfg \in Configs :
         /\ quote_priority = cfg.quote_priority
         /\ forex_priority = cfg.forex_priority
         /\ fallback_enabled = cfg.fallback_enabled
    /\ last = NoCall
    /\ table = {}
    /\ pending = [p \in Writers |-> <<>>]
    /\ db_pool = FALSE
    /\ db_enabled = FALSE
    /\ lastSave = NoSave
    /\ lastQuery = NoQuery
    /\ today = StartDate
    /\ days = 0
    /\ schedules = NoSchedules
    /\ local_data = <<>>
    /\ lastGold = NoGold
    /\ redis_failed = FALSE
    /\ redis_connected = FALSE
    /\ redisStore = <<>>
    /\ lastCache = NoCacheCall
    /\ pendingRate = [p \in Callers |-> <<>>]
    /\ semaphore = <<>>
    /\ http_state = [c \in Clients |-> "idle"]
    /\ http_attempt = [c \in Clients |-> 0]
    /\ http_calls = [c \in Clients |-> 0]
    /\ http_waited = [c \in Clients |-> FALSE]
    /\ pendingSet = [p \in Callers |-> <<>>]
    /\ lastInit = <<>>

\* Redis is disabled by default
Init ==
    /\ InitCommon
    /\ gold_priority = DefaultGoldPriority
    /\ use_redis = FALSE
    /\ max_concurrent = DefaultMaxConcurrent

\* the cache with Redis enabled in the configuration, or not
InitRedis ==
    /\ InitCommon
    /\ quote_priority = DefaultQuotePriority
    /\ forex_priority = DefaultForexPriority
    /\ fallback_enabled
    /\ gold_priority = DefaultGoldPriority
    /\ use_redis \in BOOLEAN
    /\ max_concurrent = DefaultMaxConcurrent

\* the cache with Redis enabled in the configuration
InitSet ==
    /\ InitCommon
    /\ quote_priority = DefaultQuotePriority
    /\ forex_priority = DefaultForexPriority
    /\ fallback_enabled
    /\ gold_priority = DefaultGoldPriority
    /\ use_redis = TRUE
    /\ max_concurrent = DefaultMaxConcurrent

\* the store under the default configuration, which it does not read
InitStore ==
    /\ InitCommon
    /\ quote_priority = DefaultQuotePriority
    /\ forex_priority = DefaultForexPriority
    /\ fallback_enabled
    /\ gold_priority = DefaultGoldPriority
    /\ use_redis = FALSE
    /\ max_concurrent = DefaultMaxConcurrent

\* the HTTP client under a configured limit below the number of clients
InitHttp ==
    /\ InitCommon
    /\ quote_priority = DefaultQuotePriority
    /\ forex_priority = DefaultForexPriority
    /\ fallback_enabled
    /\ gold_priority = DefaultGoldPriority
    /\ use_redis = FALSE
    /\ max_concurrent \in HttpLimits

\* the gold service is also run with a priority list that names the WGC
InitGold ==
    /\ InitCommon
    /\ quote_priority = DefaultQuotePriority
    /\ forex_priority = DefaultForexPriority
    /\ gold_priority \in GoldPriorities
    /\ use_redis = FALSE
    /\ max_concurrent = DefaultMaxConcurrent

\* the single-entity paths: fetch_single and get_rate
Next ==
    \/ \E asset \in Assets :
         \E o \in QuoteWalkOutcomes(quote_priority, asset) : FetchSingle(asset, o)
    \/ \E args \in CurrencyArgs :
         \E o \in ForexWalkOutcomes(forex_priority) : GetRate(args, o)

Spec == Init /\ [][Next]_vars

\* the batch path: fetch_all
NextBatch ==
    \E assets \in Requests :
        \E env \in FetchAllEnvs(fileCache, quote_priority, assets, now) :
            FetchAll(assets, env)

SpecBatch == Init /\ [][NextBatch]_vars

\* get_rate called by two coroutines whose awaits interleave
NextFlight ==
    \/ \E p \in Callers, args \in CurrencyArgs : GetRateBegin(p, args)
    \/ \E p \in Callers :
          \E o \in ForexWalkOutcomes(forex_priority) : GetRateFinish(p, o)
    \/ \E d \in TickSteps : Tick(d)

SpecFlight == Init /\ [][NextFlight]_vars

\* the HybridCache over a Redis server that answers, refuses or fails
NextRedis ==
    \/ \E key \in RedisKeys, outcome \in RedisOutcomes : AsyncGet(key, outcome)
    \/ \E key \in RedisKeys, data \in CacheData, ttl \in CacheTTLs,
          outcome \in RedisOutcomes : AsyncSet(key, data, ttl, outcome)
    \/ \E d \in TickSteps : Tick(d)

SpecRedis == InitRedis /\ [][NextRedis]_vars

\* concurrent calls of http_client.fetch
NextHttp ==
    \/ \E c \in Clients : HttpFetch(c)
    \/ \E c \in Clients : HttpAdmit(c)
    \/ \E c \in Clients, outcome \in AttemptOutcomes : HttpAttemptEnds(c, outcome)
    \/ \E c \in Clients : HttpRetry(c)

\* the event loop runs every task that is ready: a waiter whose semaphore
\* is free acquires it, a retry delay ends, and every request ends, by its
\* response or by the total timeout of the attempt at the latest
SpecHttp ==
    /\ InitHttp
    /\ [][NextHttp]_vars
    /\ \A c \in Clients :
          /\ WF_vars(HttpAdmit(c))
          /\ WF_vars(\E outcome \in AttemptOutcomes : HttpAttemptEnds(c, outcome))
          /\ WF_vars(HttpRetry(c))

\* fetch_single with providers that may deliver a non-positive price
NextSanity ==
    \/ \E asset \in Assets :
         \E o \in SanityWalkOutcomes(quote_priority, asset) : FetchSingle(asset, o)
    \/ \E d \in TickSteps : Tick(d)

SpecSanity == Init /\ [][NextSanity]_vars

\* the two calls that gather per-entity tasks: fetch_all and get_all_rates
NextGather ==
    \/ \E assets \in GatherRequests :
          \E env \in FetchAllEnvs(fileCache, quote_priority, assets, now) :
              FetchAll(assets, env)
    \/ \E base \in BaseArgs :
          \E env \in GetAllRatesEnvs(forex_priority) : GetAllRates(base, env)

SpecGather == Init /\ [][NextGather]_vars

\* all three paths on one CN stock, one global index and one currency pair,
\* with the clock advancing
NextTTL ==
    \/ \E o \in QuoteWalkOutcomes(quote_priority, A1) : FetchSingle(A1, o)
    \/ \E assets \in TTLRequests :
         \E env \in FetchAllEnvs(fileCache, quote_priority, assets, now) :
             FetchAll(assets, env)
    \/ \E args \in CurrencyArgs :
         \E o \in ForexWalkOutcomes(forex_priority) : GetRate(args, o)
    \/ \E d \in TickSteps : Tick(d)

SpecTTL == Init /\ [][NextTTL]_vars

\* the cache alone: reads, writes and deletes of two keys as the clock advances
NextHours ==
    \E th \in TradingHoursConfigs, market \in Markets, check_time \in CheckTimes :
        IsTradingHours(th, market, check_time)

SpecHours == InitStore /\ [][NextHours]_vars

NextGpr == \E data \in GprFiles : GetGprAnalysis(data)

SpecGpr == InitStore /\ [][NextGpr]_vars

NextRetry ==
    \E text_mode \in BOOLEAN, binary_mode \in BOOLEAN, env \in FetchEnvs :
        Fetch(text_mode, binary_mode, env)

SpecRetry == InitStore /\ [][NextRetry]_vars

\* concurrent writers of the HybridCache while the Redis server is healthy
NextSet ==
    \/ \E p \in Callers, key \in RedisKeys, data \in CacheData, ttl \in CacheTTLs :
          AsyncSetBegin(p, key, data, ttl)
    \/ \E p \in Callers : AsyncSetFinish(p, "ok")
    \/ \E d \in TickSteps : Tick(d)

SpecSet == InitSet /\ [][NextSet]_vars

NextCache ==
    \/ \E key \in CacheKeys : CacheGetOp(key)
    \/ \E key \in CacheKeys, data \in CacheData, ttl \in CacheTTLs :
         CacheSetOp(key, data, ttl)
    \/ \E key \in CacheKeys : CacheDeleteOp(key)
    \/ CacheClearOp
    \/ \E d \in TickSteps : Tick(d)

SpecCache == Init /\ [][NextCache]_vars

\* the gold-reserve store: two writers stamp and save as the clock advances
NextStore ==
    \/ \E outcome \in {"ok", "no_pool", "test_fails"} : DatabaseInit(outcome)
    \/ DatabaseClose
    \/ \E writer \in Writers :
         \E data \in FetchedData(writer) : PrepareReserves(writer, data)
    \/ \E writer \in Writers, ok \in BOOLEAN : SaveReserves(writer, ok)
    \/ \E d \in TickSteps : Tick(d)

SpecStore == InitStore /\ [][NextStore]_vars

\* the delta queries over histories saved by the script
NextDelta ==
    \/ \E outcome \in {"ok", "no_pool", "test_fails"} : DatabaseInit(outcome)
    \/ \E data \in HistoryData : PrepareReserves("script", data)
    \/ \E ok \in BOOLEAN : SaveReserves("script", ok)
    \/ GetLatestWithChanges
    \/ GetLatestWithMultiPeriodChanges

SpecDelta == Init /\ [][NextDelta]_vars

\* the gold read path: migration, the script's saves, the calendar, reads
NextGold ==
    \/ \E outcome \in {"ok", "no_pool"} : DatabaseInit(outcome)
    \/ InitDefaultSchedules
    \/ \E data \in FetchedData("script") : PrepareReserves("script", data)
    \/ SaveReserves("script", TRUE)
    \/ \E n \in DaySteps : AdvanceDays(n)
    \/ \E force \in BOOLEAN, env \in GoldEnvs : FetchAllWithAutoUpdate(force, env)

SpecGold == InitGold /\ [][NextGold]_vars

-----------------------------------------------------------------------------
(* Fallback order and fallback switch: fetch_single, get_rate *)

\* the entries of a priority list that name a provider, in list order
KnownQuotePriority == Filter(quote_priority, QuoteSources)
KnownForexPriority == Filter(forex_priority, ForexSources)

SingleOps == {"fetch_single", "get_rate"}

ChainOf(op) == IF op = "get_rate" THEN KnownForexPriority ELSE KnownQuotePriority

\* the returned value is the one source built
IsValueOf(op, value, source) ==
    IF op = "get_rate"
    THEN value = SourceRate(source, value.from_currency, value.to_currency)
    ELSE value.price = SourcePrice(source)

\* C1: on a cache miss fetch_single and get_rate call the providers of the
\* priority list in list order, a provider only after every provider before
\* it was called and failed, and a value returned is the value of the last
\* provider called (so provider 1's when provider 0 failed and 1 answered)
C1_FallbackOrder ==
    (last.op \in SingleOps /\ last.hits = {}) =>
        LET chain == ChainOf(last.op)
            inv == last.invoked[1]
            fl == last.failed[1]
        IN  /\ Len(inv) <= Len(chain)
            /\ \A j \in 1..Len(inv) : inv[j] = chain[j]
            /\ \A j \in 1..(Len(inv) - 1) : Len(fl) >= j /\ fl[j] = inv[j]
            /\ last.values # <<>> =>
                  /\ Len(inv) >= 1
                  /\ Len(fl) = Len(inv) - 1
                  /\ IsValueOf(last.op, last.values[1], inv[Len(inv)])

\* provider 0 of the default three-provider chain failed, provider 1
\* answered, and fetch_single returned provider 1's quote
C1_Witness ==
    /\ last.op = "fetch_single"
    /\ quote_priority = DefaultQuotePriority
    /\ last.invoked = <<(<<"eastmoney", "sina">>)>>
    /\ last.failed = <<(<<"eastmoney">>)>>
    /\ last.values # <<>>
    /\ last.values[1].price = SourcePrice("sina")

\* C2: with fallback disabled a failure of provider 0, raised or empty, fails
\* the entity: no second provider is called and nothing is returned
C2_FallbackDisabledStopsAtFirst ==
    (last.op \in SingleOps /\ ~fallback_enabled /\ last.hits = {}
        /\ last.failed[1] # <<>>) =>
        /\ Len(last.invoked[1]) = 1
        /\ last.values = <<>>

-----------------------------------------------------------------------------
(* The batch path: fetch_all *)

\* the values fetch_all returned for the entity with cache key k
ValuesFor(k) == {j \in 1..Len(last.values) : <<"quote", last.values[j].code>> = k}

\* C3: the result of fetch_all covers every requested asset, with a value or
\* with a failure marker (the returned list holds quotes only, so: a quote)
C3_ResultCoversRequest ==
    last.op = "fetch_all" =>
        \A i \in 1..Len(last.req) : ValuesFor(last.req[i]) # {}

\* C4: with fallback enabled an asset the first provider did not answer is
\* retried with the next provider, and every asset is returned exactly once
C4_BatchFallbackPerEntity ==
    (last.op = "fetch_all" /\ fallback_enabled) =>
        \A i \in 1..Len(last.req) :
            /\ Cardinality(ValuesFor(last.req[i])) <= 1
            /\ (last.failed[i] # <<>> /\ Len(KnownQuotePriority) >= 2) =>
                  Len(last.invoked[i]) >= 2

\* C5: the first provider fetch_all contacts for a cache-miss asset is the
\* first provider of quote_priority
C5_BatchTriesIndexZeroFirst ==
    last.op = "fetch_all" =>
        \A i \in 1..Len(last.req) :
            last.invoked[i] # <<>> =>
                last.invoked[i][1] = KnownQuotePriority[1]

-----------------------------------------------------------------------------
(* Cache hits and cache lifetimes *)

FetchOps == {"fetch_single", "fetch_all", "get_rate"}

\* a step that completes a call
CallStep == calls' = calls + 1

Unexpired(c, k, t) == k \in DOMAIN c /\ c[k].expire_at > t

FromDict(op, d) == IF op = "get_rate" THEN RateFromDict(d) ELSE QuoteFromDict(d)

KeyOfValue(op, v) ==
    IF op = "get_rate" THEN ForexKey(v.from_currency, v.to_currency)
    ELSE <<"quote", v.code>>

\* C6: a call of fetch_single, fetch_all or get_rate for an entity whose
\* cache entry is unexpired answers it from the cache (the cached value,
\* entry untouched) and invokes no provider for it; and every value a call
\* returns is in the cache, unexpired, when the call returns
C6_UnexpiredEntryNoProviderCall ==
    [][(CallStep /\ last'.op \in FetchOps) =>
          /\ \A i \in 1..Len(last'.req) :
                LET k == last'.req[i] IN
                Unexpired(fileCache, k, now) =>
                    /\ k \in last'.hits
                    /\ last'.invoked[i] = <<>>
                    /\ \E j \in 1..Len(last'.values) :
                          last'.values[j] = FromDict(last'.op, fileCache[k].data)
                    /\ fileCache'[k] = fileCache[k]
          /\ \A j \in 1..Len(last'.values) :
                Unexpired(fileCache', KeyOfValue(last'.op, last'.values[j]), now)
      ]_vars

\* a rate fetched through the fallback provider is served from the cache by
\* a later get_rate, some time after it was written
C6_Witness ==
    /\ last.op = "get_rate"
    /\ last.hits # {}
    /\ last.invoked = <<(<<>>)>>
    /\ last.values[1].source = "ExchangeRate-API"
    /\ fileCache[last.req[1]].expire_at < now + forex_ttl

\* the market of the asset a quote key belongs to
MarketOfKey(k) == (CHOOSE a \in Assets : QuoteKey(a) = k).market

\* the cache keys a step writes
WrittenKeys ==
    {k \in DOMAIN fileCache' : k \notin DOMAIN fileCache \/ fileCache'[k] # fileCache[k]}

\* the instant a cached quote was written: the quote is built and cached in
\* the same call
WrittenAt(entry) == entry.data.update_time[2]

\* C7: a quote is cached for quote_ttl_trading seconds when its market is in
\* trading hours at the write and for quote_ttl seconds otherwise; so a call
\* at an age between the two lifetimes refetches a quote written while the
\* market was open and serves from the cache one written while it was closed
C7_QuoteTTLByTradingHours ==
    [][(CallStep /\ last'.op \in FetchOps) =>
          /\ \A k \in WrittenKeys :
                k[1] = "quote" =>
                    fileCache'[k].expire_at =
                        now + (IF is_trading_hours(MarketOfKey(k), now)
                               THEN quote_ttl_trading ELSE quote_ttl)
          /\ \A i \in 1..Len(last'.req) :
                LET k == last'.req[i] IN
                (k[1] = "quote" /\ k \in DOMAIN fileCache
                    /\ quote_ttl_trading <= now - WrittenAt(fileCache[k])
                    /\ now - WrittenAt(fileCache[k]) < quote_ttl) =>
                    IF is_trading_hours(MarketOfKey(k), WrittenAt(fileCache[k]))
                    THEN k \notin last'.hits /\ last'.invoked[i] # <<>>
                    ELSE k \in last'.hits /\ last'.invoked[i] = <<>>
      ]_vars

\* a quote of the CN stock written after the morning session closed is
\* served from the cache at an age past the trading-hours lifetime
C7_Witness ==
    /\ last.op \in {"fetch_single", "fetch_all"}
    /\ QuoteKey(A1) \in last.hits
    /\ now - WrittenAt(fileCache[QuoteKey(A1)]) >= quote_ttl_trading
    /\ ~is_trading_hours("CN", WrittenAt(fileCache[QuoteKey(A1)]))

\* C8: Cache.get never returns an entry whose expire_at is at or before the
\* current time: it returns nothing for a missing key or one at or past its
\* expiry, deleting that entry and no other, and otherwise returns the stored
\* value and changes nothing
C8_GetNeverReturnsExpired ==
    [][(CallStep /\ last'.op = "cache_get") =>
          LET k == last'.req[1] IN
          /\ (k \notin DOMAIN fileCache \/ fileCache[k].expire_at <= now) =>
                /\ last'.values = <<>>
                /\ DOMAIN fileCache' = DOMAIN fileCache \ {k}
                /\ \A j \in DOMAIN fileCache' : fileCache'[j] = fileCache[j]
          /\ (k \in DOMAIN fileCache /\ fileCache[k].expire_at > now) =>
                /\ last'.values = <<fileCache[k].data>>
                /\ fileCache' = fileCache
      ]_vars

\* a get evicted its key and the entry of the other key is still stored
C8_Witness ==
    /\ last.op = "cache_get"
    /\ last.values = <<>>
    /\ last.evicted = {last.req[1]}
    /\ DOMAIN fileCache # {}

-----------------------------------------------------------------------------
(* The gold-reserve store *)

\* the rows stored under the key of r
RowsFor(r) == {x \in table : ReserveKey(x) = ReserveKey(r)}

\* batch[i] is the last element of the batch with its key
LastForKey(batch, i) ==
    \A j \in (i + 1)..Len(batch) : ReserveKey(batch[j]) # ReserveKey(batch[i])

\* a step in which a writer's save_batch call completes
SaveStep == \E w \in Writers : pending[w] # <<>> /\ pending'[w] = <<>>

\* C9: the table holds at most one row per (country_code, report_date), and
\* after a save_batch that wrote its batch every key of the batch has exactly
\* one row, carrying the values of the last write for that key
C9_IdempotentUpsert ==
    /\ \A x, y \in table : ReserveKey(x) = ReserveKey(y) => x = y
    /\ (lastSave.op = "save_batch" /\ lastSave.count > 0) =>
          \A i \in 1..Len(lastSave.batch) :
              /\ Cardinality(RowsFor(lastSave.batch[i])) = 1
              /\ LastForKey(lastSave.batch, i) =>
                    RowsFor(lastSave.batch[i]) = {lastSave.batch[i]}

\* a save wrote an observation over the row stored for its key, and the
\* table holds that one row, with the second write's amount
C9_Witness ==
    /\ lastSave.op = "save_batch"
    /\ lastSave.count = 1
    /\ lastSave.replaced # {}
    /\ table = {lastSave.batch[1]}
    /\ \E old \in lastSave.replaced :
          old.amount_tonnes # lastSave.batch[1].amount_tonnes

\* C10 as claimed: of two observations upserted for one key the row stored
\* afterwards is the one with the newer fetch time, in whatever order the two
\* writes reach the store
C10_NewerFetchTimeWins ==
    lastSave.op = "save_batch" =>
        \A old \in lastSave.replaced :
            \A x \in table :
                ReserveKey(x) = ReserveKey(old) => x.fetch_time >= old.fetch_time

\* C10 as it holds: of two observations upserted for one key the row stored
\* afterwards is the one whose write reached the store last, whatever the
\* fetch times and the sources of the two; rows of other keys stay as they are
C10_LastArrivalWins ==
    [][(SaveStep /\ lastSave'.count > 0) =>
          /\ \A i \in 1..Len(lastSave'.batch) :
                LastForKey(lastSave'.batch, i) => lastSave'.batch[i] \in table'
          /\ \A x \in table :
                (\A i \in 1..Len(lastSave'.batch) :
                    ReserveKey(lastSave'.batch[i]) # ReserveKey(x)) => x \in table'
          /\ \A x \in table' :
                x \in table \/ \E i \in 1..Len(lastSave'.batch) : x = lastSave'.batch[i]
      ]_vars

\* a write stamped earlier reached the store after one stamped later and from
\* another source, and replaced it
C10_Witness ==
    /\ lastSave.op = "save_batch"
    /\ lastSave.count > 0
    /\ \E old \in lastSave.replaced :
          \E x \in table :
              /\ ReserveKey(x) = ReserveKey(old)
              /\ x.fetch_time < old.fetch_time
              /\ x.data_source # old.data_source

-----------------------------------------------------------------------------
(* Deltas of the latest observation *)

\* the stored rows of the entity of a result row that a delta over `months`
\* months may refer to: those at or before the latest period minus the horizon
ReferenceRows(row, months) ==
    {r \in RowsOf(table, row.code) :
        MonthsOf(r.report_date) <= MonthsOf(row.date) - months}

\* the most recent of them
ReferenceRow(row, months) ==
    CHOOSE r \in ReferenceRows(row, months) :
        \A x \in ReferenceRows(row, months) :
            MonthsOf(x.report_date) <= MonthsOf(r.report_date)

\* the query results read the table as it is now
QueryIsCurrent ==
    /\ lastQuery.op = "get_latest_with_changes"
    /\ lastQuery.rows = get_latest_with_changes(table, TRUE)

\* C11: each delta of the latest-with-deltas query is the latest amount minus
\* the amount of the same entity's most recent observation at or before the
\* latest period minus the horizon (1 month, 1 year), whatever other entities
\* have stored
C11_DeltaAgainstNearestReference ==
    QueryIsCurrent =>
        \A row \in lastQuery.rows :
            /\ ReferenceRows(row, 1) # {} =>
                  row.change_1m = <<row.amount - ReferenceRow(row, 1).amount_tonnes>>
            /\ ReferenceRows(row, 12) # {} =>
                  row.change_1y = <<row.amount - ReferenceRow(row, 12).amount_tonnes>>

\* C12: a delta whose entity has no observation at or before the latest
\* period minus the horizon is reported as absent, not as zero
C12_MissingReferenceIsAbsent ==
    QueryIsCurrent =>
        \A row \in lastQuery.rows :
            /\ ReferenceRows(row, 1) = {} => row.change_1m = <<>>
            /\ ReferenceRows(row, 12) = {} => row.change_1y = <<>>

-----------------------------------------------------------------------------
(* Freshness and refresh of the gold read path *)

\* the entity has a stored observation of the most recently completed
\* calendar month (or later); MISSING or STALE otherwise
Fresh(rows, code, date) ==
    /\ RowsOf(rows, code) # {}
    /\ \E r \in RowsOf(rows, code) :
          MonthsOf(r.report_date) >= MonthsOf(PreviousMonth(date))

Tracked == Range(TOP_20_COUNTRIES)

\* the last gold read ran without force against an enabled database
UnforcedRead ==
    /\ lastGold.op = "fetch_all_with_auto_update"
    /\ ~lastGold.force
    /\ lastGold.enabled

\* the sources of the priority list that have a fetch, in list order
RECURSIVE GoldChain(_, _)
GoldChain(prio, i) ==
    IF i > Len(prio) THEN <<>>
    ELSE IF prio[i] \in GoldProviders THEN <<prio[i]>> \o GoldChain(prio, i + 1)
    ELSE GoldChain(prio, i + 1)

\* C13: an unforced read refetches before answering when some tracked entity
\* is MISSING or STALE in the store, and calls no provider when every tracked
\* entity is FRESH (so a second read in the month of a refresh does not
\* refetch)
C13_RefetchExactlyWhenNotFresh ==
    UnforcedRead =>
        /\ (\E c \in Tracked : ~Fresh(lastGold.before, c, lastGold.date))
              => (lastGold.need /\ lastGold.invoked # <<>>)
        /\ (\A c \in Tracked : Fresh(lastGold.before, c, lastGold.date))
              => lastGold.invoked = <<>>

\* C14: an unforced refresh that found some tracked entity MISSING or STALE
\* asks for and writes only the entities that were MISSING or STALE; the stored rows of every FRESH entity are the same
\* before and after the call
C14_RefreshRestrictedToStaleEntity ==
    (/\ UnforcedRead /\ lastGold.need /\ ~lastGold.raised
     /\ \E c \in Tracked : ~Fresh(lastGold.before, c, lastGold.date)) =>
        /\ \A c \in lastGold.fetched : ~Fresh(lastGold.before, c, lastGold.date)
        /\ \A c \in Tracked :
              Fresh(lastGold.before, c, lastGold.date) =>
                  RowsOf(lastGold.after, c) = RowsOf(lastGold.before, c)

\* C15: a forced read always decides to refetch and calls the sources of
\* gold_priority that have a fetch in list order, the first one always, a
\* later one only after every one before it was called, stopping early only
\* when one delivered data or raised with fallback disabled, whatever is stored
C15_ForceAlwaysRefetchesInOrder ==
    (lastGold.op = "fetch_all_with_auto_update" /\ lastGold.force) =>
        LET chain == GoldChain(gold_priority, 1)
            inv == lastGold.invoked
        IN  /\ lastGold.need
            /\ Len(inv) >= 1
            /\ Len(inv) <= Len(chain)
            /\ \A j \in 1..Len(inv) : inv[j] = chain[j]
            /\ Len(inv) < Len(chain) =>
                  (lastGold.fetched # {} \/ (lastGold.raised /\ ~fallback_enabled))

\* a forced read found every tracked entity FRESH and a release schedule for
\* each, so that an unforced read would not have fetched, and still called
\* the WGC, which failed, and then the IMF, which delivered
C15_Witness ==
    /\ lastGold.op = "fetch_all_with_auto_update"
    /\ lastGold.force
    /\ lastGold.enabled
    /\ schedules = DefaultSchedules
    /\ ~need_fetch(FALSE, schedules, lastGold.date, TRUE, local_data)
    /\ \A c \in Tracked : Fresh(lastGold.before, c, lastGold.date)
    /\ lastGold.invoked = <<"wgc", "imf">>
    /\ lastGold.fetched = Tracked

-----------------------------------------------------------------------------
(* Batch calls and single failures *)

GatherOps == {"fetch_all", "get_all_rates"}

\* the fetch of the i-th requested entity delivered: the last source called
\* for it did not fail
Delivered(i) ==
    /\ last.invoked[i] # <<>>
    /\ Len(last.failed[i]) < Len(last.invoked[i])

\* every source called for the i-th requested entity failed
AllFailed(i) ==
    /\ last.invoked[i] # <<>>
    /\ last.failed[i] = last.invoked[i]

\* the returned values that belong to the cache key k
GatheredFor(k) ==
    {j \in 1..Len(last.values) :
        IF last.op = "get_all_rates"
        THEN ForexKey(last.values[j].from_currency, last.values[j].to_currency) = k
        ELSE <<"quote", last.values[j].code>> = k}

\* C16: fetch_all and get_all_rates never raise, and whatever happened to
\* the other entities (all their providers failed or raised, with fallback
\* enabled or disabled) every entity that was in the cache or whose own fetch
\* delivered is in the result
C16_BatchNeverFailsWholesale ==
    last.op \in GatherOps =>
        /\ ~last.raised
        /\ \A i \in 1..Len(last.req) :
              (last.req[i] \in last.hits \/ Delivered(i))
                  => GatheredFor(last.req[i]) # {}

\* with fallback disabled get_all_rates asked the first provider for one
\* pair, which raised (the walk stopped there although a second provider was
\* left), and still returned the rate of the other pair
C16_Witness ==
    /\ last.op = "get_all_rates"
    /\ ~fallback_enabled
    /\ forex_priority = DefaultForexPriority
    /\ ~last.raised
    /\ \E i \in 1..Len(last.req) :
          /\ AllFailed(i)
          /\ Len(last.invoked[i]) = 1
    /\ \E i \in 1..Len(last.req) :
          /\ Delivered(i)
          /\ GatheredFor(last.req[i]) # {}

-----------------------------------------------------------------------------
(* Sanity of fetched payloads *)

\* the cached quotes
CachedQuotes == {fileCache[k].data : k \in {x \in DOMAIN fileCache : x[1] = "quote"}}

-----------------------------------------------------------------------------
(* Degradation of the remote cache *)

\* a step that completes a HybridCache call during which Redis was asked and
\* could not be connected to or failed on the command
DegradedStep ==
    /\ calls' = calls + 1
    /\ lastCache'.op \in {"async_get", "async_set"}
    /\ lastCache'.asked
    /\ \/ lastCache'.outcome = "error"
       \/ lastCache'.outcome = "connect_fails" /\ ~redis_connected

\* C18: a HybridCache.async_get or async_set during which Redis cannot be
\* connected to or fails on the command does not raise; async_get returns
\* what the file cache holds for the key at that time, and async_set leaves
\* the value in the file cache with its lifetime
C18_RedisFailureDegradesToFile ==
    [][DegradedStep =>
        /\ ~lastCache'.raised
        /\ lastCache'.op = "async_get" =>
              lastCache'.value = CacheGet(fileCache, lastCache'.key, now)
        /\ lastCache'.op = "async_set" =>
              /\ lastCache'.key \in DOMAIN fileCache'
              /\ fileCache'[lastCache'.key] =
                    [data |-> lastCache'.data[1],
                     expire_at |-> now + lastCache'.ttl]]_vars

\* Redis was enabled, an async_get met a failing GET command and returned
\* the value the file cache held while the server held another one
C18_Witness ==
    /\ use_redis
    /\ lastCache.op = "async_get"
    /\ lastCache.asked
    /\ lastCache.outcome = "error"
    /\ lastCache.value # <<>>
    /\ lastCache.key \in DOMAIN redisStore
    /\ json_loads(redisStore[lastCache.key].value) # lastCache.value[1]

-----------------------------------------------------------------------------
(* Concurrent fetches of one entity *)

\* the cache key a caller's pending get_rate fetches
PendingKey(p) == ForexKey(pendingRate[p][1].from, pendingRate[p][1].to)

\* C19: at most one fetch per cache key is in flight: no two callers await
\* the providers for the same currency pair at the same time
C19_SingleFlightPerKey ==
    \A p \in Callers : \A q \in Callers \ {p} :
        (pendingRate[p] # <<>> /\ pendingRate[q] # <<>>)
            => PendingKey(p) # PendingKey(q)

-----------------------------------------------------------------------------
(* Bounded concurrency of the HTTP client *)

\* the calls that hold a slot, and those with a request on the wire
Holders == {c \in Clients : http_state[c] \in {"inflight", "sleeping"}}
InFlight == {c \in Clients : http_state[c] = "inflight"}

\* never more requests in flight, nor slots held, than the limit
HttpBounded ==
    /\ Cardinality(InFlight) <= max_concurrent
    /\ Cardinality(Holders) <= max_concurrent

\* a call enters only through a free slot, and a call that leaves fetch, by
\* whatever exit, gives its slot back
HttpSlotDiscipline ==
    \A c \in Clients :
        /\ (http_state[c] \in {"idle", "waiting"} /\ http_state'[c] = "inflight")
              => Cardinality(Holders) < max_concurrent
        /\ (http_state[c] = "inflight" /\ http_state'[c] = "idle")
              => /\ semaphore' = <<semaphore[1] + 1>>
                 /\ Cardinality(Holders') = Cardinality(Holders) - 1

\* C20: at every moment at most max_concurrent requests of HttpClient.fetch
\* are in flight; a call enters only when a slot is free and waits
\* otherwise; every exit (response, retries exhausted, exception) releases
\* the slot; and every waiting call is eventually admitted
C20_BoundedConcurrency ==
    /\ []HttpBounded
    /\ [][HttpSlotDiscipline]_vars
    /\ \A c \in Clients :
          (http_state[c] = "waiting") ~> (http_state[c] = "inflight")

\* a call that had to wait is in flight while the limit is exhausted
C20_Witness ==
    \E c \in Clients :
        /\ http_state[c] = "inflight"
        /\ http_waited[c]
        /\ Cardinality(Holders) = max_concurrent
        /\ \E d \in Clients \ {c} : http_state[d] = "waiting"

-----------------------------------------------------------------------------
(* The count a batch upsert returns *)

\* the (country_code, report_date) keys whose stored row a step of the
\* store inserted or changed
KeysWritten == {ReserveKey(x) : x \in table' \ table}

\* C21: the count save_batch returns is the number of distinct
\* (country_code, report_date) rows the call inserted or updated, also when
\* the batch holds several observations for one key and when the call wrote
\* nothing
C21_CountIsRowsWritten ==
    [][SaveStep => lastSave'.count = Cardinality(KeysWritten)]_vars

-----------------------------------------------------------------------------
(* The trading calendar *)

\* the time of day lies in the interval from lo to hi, bounds included
Within(lo, hi, c) == ParseTime(lo) <= c /\ c <= ParseTime(hi)

\* C22: is_trading_hours returns false for every time on a Saturday or a
\* Sunday, whatever the market and the time of day, and false at every time
\* for a market other than CN, HK and US; no call raises
C22_ClosedOnWeekendsAndUnknownMarkets ==
    last.op = "is_trading_hours" =>
        /\ ~last.raised
        /\ Weekday(last.check_time) \in {5, 6} => ~last.result
        /\ last.market \notin {"CN", "HK", "US"} => ~last.result

\* the US market was asked about on a Saturday at 04:00, inside the hours
\* of its overnight session, and is closed
C22_Witness ==
    /\ last.op = "is_trading_hours"
    /\ last.th = DefaultTradingHours
    /\ last.market = "US"
    /\ Weekday(last.check_time) = 5
    /\ TimeOfDay(last.check_time) = 4 * 3600
    /\ ~last.result

\* C23: on a working day the US market is open iff time >= start or
\* time <= end when its session has start > end, and iff
\* start <= time <= end otherwise; CN and HK are open iff the time lies in
\* the morning or in the afternoon interval, bounds included
C23_SessionIntervals ==
    (last.op = "is_trading_hours" /\ Weekday(last.check_time) \notin {5, 6}) =>
        LET c == TimeOfDay(last.check_time)
            th == last.th
            start == ParseTime(th.us_pre_market_start)
            end == ParseTime(th.us_pre_market_end)
        IN  /\ (last.market = "US" /\ start > end) =>
                  (last.result <=> (c >= start \/ c <= end))
            /\ (last.market = "US" /\ start <= end) =>
                  (last.result <=> (start <= c /\ c <= end))
            /\ last.market = "CN" =>
                  (last.result <=> (\/ Within(th.cn_morning_start, th.cn_morning_end, c)
                                    \/ Within(th.cn_afternoon_start, th.cn_afternoon_end, c)))
            /\ last.market = "HK" =>
                  (last.result <=> (\/ Within(th.hk_morning_start, th.hk_morning_end, c)
                                    \/ Within(th.hk_afternoon_start, th.hk_afternoon_end, c)))

\* the US market was asked about on a Monday at 04:00:00, the last instant
\* of the overnight session 21:30-04:00, and is open
C23_Witness ==
    /\ last.op = "is_trading_hours"
    /\ last.th = DefaultTradingHours
    /\ last.market = "US"
    /\ Weekday(last.check_time) = 0
    /\ TimeOfDay(last.check_time) = 4 * 3600
    /\ last.result

-----------------------------------------------------------------------------
(* Cache entries and failed fetches *)

\* the cache keys a step created or rewrote
KeysCached ==
    {k \in DOMAIN fileCache' : k \notin DOMAIN fileCache \/ fileCache'[k] # fileCache[k]}

\* the call a step completed returned a value fetched for the cache key k;
\* the key of get_all_rates stands for all the currencies of its base
FetchedFor(k) ==
    IF last'.op = "get_all_rates" /\ k[2] = "all"
    THEN last'.values # <<>>
    ELSE \E j \in 1..Len(last'.values) :
            IF last'.op \in {"get_rate", "get_all_rates"}
            THEN ForexKey(last'.values[j].from_currency,
                          last'.values[j].to_currency) = k
            ELSE <<"quote", last'.values[j].code>> = k

\* C24: a call creates or rewrites a cache entry only for a key it fetched
\* a value for; a get_all_rates call in which no provider answered for any
\* currency, like a fetch whose providers all failed, writes no entry
C24_CacheWrittenOnlyOnSuccess ==
    [][CallStep => \A k \in KeysCached : FetchedFor(k)]_vars

-----------------------------------------------------------------------------
(* The horizons of the GPR analysis *)

\* the months the analysed file holds, and a month as a count of months
StoredMonths ==
    {ym \in GprMonths : FormatMonth(ym[1], ym[2]) \in DOMAIN last.data}
MonthCount(ym) == ym[1] * 12 + ym[2]
ValueOf(ym) == last.data[FormatMonth(ym[1], ym[2])]

\* the newest of a set of months
Newest(S) == CHOOSE ym \in S : \A x \in S : MonthCount(x) <= MonthCount(ym)

\* the stored months that lie n months or more before the newest stored one
AtOrBefore(n) ==
    {ym \in StoredMonths :
        MonthCount(ym) <= MonthCount(Newest(StoredMonths)) - n}

\* C25: for each horizon of N months get_gpr_analysis reports the value at
\* the greatest stored month <= (latest month - N months) and the latest
\* value minus that value, across year boundaries too; it reports None when
\* no stored month is at or before the target
C25_GprHorizonNearestBefore ==
    (last.op = "get_gpr_analysis" /\ StoredMonths # {}) =>
        \A label \in DOMAIN Horizons :
            LET refs == AtOrBefore(Horizons[label])
                got == last.result.horizons[label]
            IN  IF refs = {} THEN got = <<>>
                ELSE got = <<[value |-> ValueOf(Newest(refs)),
                              change |-> ValueOf(Newest(StoredMonths))
                                            - ValueOf(Newest(refs))]>>

\* the file holds 2026-01 and 2025-11 but not 2025-12: the 1M horizon took
\* 2025-11, the nearest month before its target in the year before, and the
\* 5Y horizon, with nothing stored that far back, is None
C25_Witness ==
    /\ last.op = "get_gpr_analysis"
    /\ StoredMonths = {<<2026, 1>>, <<2025, 11>>}
    /\ last.result.horizons["1M"] = <<[value |-> 11830, change |-> 13524 - 11830]>>
    /\ last.result.horizons["5Y"] = <<>>

-----------------------------------------------------------------------------
(* The attempts of one HTTP call *)

\* C26: a fetch call that is not cancelled makes at most max_retries
\* requests; every request but the last one ended in a timeout or a client
\* error and was followed by a sleep of retry_delay times its number, and
\* there is no sleep after the last request; a request that ends in another
\* exception is the last one; the call returns the response of its last
\* request, or None when that request failed, and does not raise
C26_BoundedRetries ==
    (last.op = "fetch" /\ "cancelled" \notin Range(last.outcomes)) =>
        /\ last.attempts \in 1..max_retries
        /\ Len(last.outcomes) = last.attempts
        /\ \A i \in 1..(last.attempts - 1) :
              last.outcomes[i] \in {"timeout", "client_error"}
        /\ last.slept = [i \in 1..(last.attempts - 1) |-> retry_delay * i]
        /\ last.outcomes[last.attempts] \in {"timeout", "client_error"}
              => last.attempts = max_retries
        /\ ~last.raised
        /\ last.returned # <<>> <=> last.outcomes[last.attempts] = "response"

\* a call timed out, met a client error and timed out again: three requests,
\* sleeps of one and two delays and none after the third, None returned
C26_Witness ==
    /\ last.op = "fetch"
    /\ last.outcomes = <<"timeout", "client_error", "timeout">>
    /\ last.slept = <<retry_delay, 2 * retry_delay>>
    /\ last.returned = <<>>
    /\ ~last.raised

-----------------------------------------------------------------------------
(* Redis misses *)

\* C27: the HybridCache turns to the file cache for good (_redis_failed)
\* only in a call during which Redis could not be connected to or failed on
\* the command; an async_get that Redis answers with "no such key" leaves
\* it as it was, so that later reads are still put to Redis
C27_MissDoesNotDegrade ==
    [][(~redis_failed /\ redis_failed') => DegradedStep]_vars

-----------------------------------------------------------------------------
(* Concurrent writers of one cache key *)

\* no async_set call is under way
SetsCompleted == \A p \in Callers : pendingSet[p] = <<>>

\* C28: with Redis enabled and healthy, once the concurrent async_set calls
\* on a key have all completed, the file cache and Redis hold the same value
\* for the key: a read of it returns the same value from either backend
C28_BackendsAgreeAfterWrites ==
    (use_redis /\ SetsCompleted) =>
        \A key \in RedisKeys :
            (Unexpired(fileCache, key, now) /\ RedisGet(redisStore, key, now) # <<>>)
                => json_loads(RedisGet(redisStore, key, now)[1]) = fileCache[key].data

-----------------------------------------------------------------------------
(* Database.init and is_enabled *)

\* a step in which a call of Database.init returns
InitStep == \E outcome \in {"ok", "no_pool", "test_fails"} : DatabaseInit(outcome)

\* C29: whenever Database.init returns True the store is enabled: after any
\* sequence of init and close calls, an init whose connection test failed
\* among them, is_enabled() is True when an init call has returned True
C29_InitTrueMeansEnabled ==
    [][(InitStep /\ lastInit' = <<TRUE>>) => is_enabled(db_pool', db_enabled')]_vars

-----------------------------------------------------------------------------
(* Partial results of get_all_rates *)

\* the common currencies the map cached under the key k of get_all_rates
\* has no rate for
MissingIn(c, k) ==
    {cur \in Range(COMMON_CURRENCIES) \ {k[3]} :
        \A i \in 1..Len(c[k].data) : c[k].data[i].to_currency # cur}

\* C30: a get_all_rates call made while the cache holds, unexpired, a map
\* from an earlier call that lacks some of the common currencies does not
\* return that map: it fetches the missing currencies again
C30_PartialMapNotFrozen ==
    [][(CallStep /\ last'.op = "get_all_rates") =>
          \A k \in last'.hits : k[2] = "all" => MissingIn(fileCache, k) = {}]_vars

====
